---- MODULE Spec2Model ----
(***************************************************************************)
(* Ruschip: a CHIP-8 / SUPER-CHIP interpreter.                             *)
(*                                                                         *)
(* The model covers the three interpreter cores of the repository          *)
(*   "chip8"      src/src/backend/chip8.rs       (classic core)            *)
(*   "super_chip" src/src/backend/super_chip.rs  (overlay on the classic)  *)
(*   "legacy"     src/src/backend/mod.rs         (monolithic core)         *)
(* together with the display buffer and the keypad of interfaces.rs.       *)
(* A tick is modelled at the granularity of its loop: TickBegin is the      *)
(* entry of tick (loaded check, timer decrement), Step is one iteration of *)
(* the for loop (bounds check, fetch, advance, execute) and TickReturn is  *)
(* the fall-through Ok(()) at the end of the loop.                         *)
(***************************************************************************)
EXTENDS Integers, Sequences, FiniteSets, TLC

(* ---------------------------------------------------------------------- *)
(* Program constants                                                      *)
(* ---------------------------------------------------------------------- *)
MEMORY_SIZE == 4096
MEMORY_PADDING == 512
REGISTER_COUNT == 16
KEY_COUNT == 16
CHARACTER_SIZE == 5
FONT_SIZE == CHARACTER_SIZE * KEY_COUNT
HIRES_CHARACTER_COUNT == 10
HIRES_CHARACTER_SIZE == 10
HIRES_FONT_SIZE == HIRES_CHARACTER_SIZE * HIRES_CHARACTER_COUNT
PERSISTENT_STORAGE_SIZE == 8
CHIP8_STACK_SIZE == 16
LEGACY_STACK_SIZE == 12
INSTRUCTION_SIZE == 2

Kinds == {"chip8", "super_chip", "legacy"}

STACK_SIZE(k) == IF k = "legacy" THEN LEGACY_STACK_SIZE ELSE CHIP8_STACK_SIZE

DISPLAY_BUFFER_WIDTH(k) == IF k = "super_chip" THEN 128 ELSE 64

DISPLAY_BUFFER_HEIGHT(k) == IF k = "super_chip" THEN 64 ELSE 32

(* ---------------------------------------------------------------------- *)
(* Bounds of the model                                                    *)
(* ---------------------------------------------------------------------- *)
\* largest n a host passes to tick(n)
MaxN == 3
\* physical keys 0 .. NumKeys-1 may be held down by the host's input
NumKeys == 2
\* refused fetches are counted up to MaxFailures
MaxFailures == 2

(* ---------------------------------------------------------------------- *)
(* Byte arithmetic                                                        *)
(* ---------------------------------------------------------------------- *)
Byte == 0..255

Max(a, b) == IF a >= b THEN a ELSE b

Min(a, b) == IF a <= b THEN a ELSE b

\* u8::saturating_sub
saturating_sub(a, b) == IF a >= b THEN a - b ELSE 0

\* u8::wrapping_add
wrapping_add(a, b) == (a + b) % 256

\* u8::wrapping_sub
wrapping_sub(a, b) == (a - b + 256) % 256

Pow2(k) == CASE k = 0 -> 1 [] k = 1 -> 2 [] k = 2 -> 4 [] k = 3 -> 8
             [] k = 4 -> 16 [] k = 5 -> 32 [] k = 6 -> 64 [] k = 7 -> 128
             [] k = 8 -> 256 [] k = 9 -> 512 [] k = 10 -> 1024 [] k = 11 -> 2048
             [] k = 12 -> 4096 [] k = 13 -> 8192 [] k = 14 -> 16384
             [] k = 15 -> 32768 [] k = 16 -> 65536

Bit(v, k) == (v \div Pow2(k)) % 2

RECURSIVE BitFold(_, _, _, _)
\* bitwise combination of two bytes, bit k downwards; op is "or", "and", "xor"
BitFold(op, a, b, k) ==
    IF k < 0 THEN 0
    ELSE LET x == Bit(a, k)
             y == Bit(b, k)
             r == CASE op = "or"  -> IF x + y > 0 THEN 1 ELSE 0
                    [] op = "and" -> x * y
                    [] op = "xor" -> (x + y) % 2
         IN r * Pow2(k) + BitFold(op, a, b, k - 1)

BitOr(a, b) == BitFold("or", a, b, 7)

BitAnd(a, b) == BitFold("and", a, b, 7)

BitXor(a, b) == BitFold("xor", a, b, 7)

(* ---------------------------------------------------------------------- *)
(* Instruction word (instruction.rs)                                      *)
(* ---------------------------------------------------------------------- *)
\* Instruction::new: u16::from_be_bytes
InstructionNew(hi, lo) == hi * 256 + lo

operator_code(w) == w \div 4096

operand_n(w) == w % 16

operand_nn(w) == w % 256

operand_nnn(w) == w % 4096

operand_x(w) == (w \div 256) % 16

operand_y(w) == (w \div 16) % 16

(* ---------------------------------------------------------------------- *)
(* RAM: a [u8; 4096] kept sparsely, absent addresses hold 0               *)
(* ---------------------------------------------------------------------- *)
ZeroMemory == <<>>

MemRead(mem, a) == IF a \in DOMAIN mem THEN mem[a] ELSE 0

MemWrite(mem, a, v) ==
    IF v = 0
    THEN [b \in (DOMAIN mem) \ {a} |-> mem[b]]
    ELSE [b \in (DOMAIN mem) \cup {a} |-> IF b = a THEN v ELSE mem[b]]

\* memory[base .. base + Len(bytes)].copy_from_slice(bytes); bytes is 1-indexed
MemCopy(mem, base, bytes) ==
    LET span == base .. (base + Len(bytes) - 1)
        keep == {a \in span : bytes[a - base + 1] # 0} \cup ((DOMAIN mem) \ span)
    IN [a \in keep |-> IF a \in span THEN bytes[a - base + 1] ELSE mem[a]]

\* &memory[from .. from + n] as a 1-indexed sequence
MemSlice(mem, from, n) == [i \in 1..n |-> MemRead(mem, from + i - 1)]

(* ---------------------------------------------------------------------- *)
(* Built-in font (defaults::BACKEND_FONT): 16 classic glyphs of 5 bytes,  *)
(* then 10 hires glyphs of 10 bytes                                       *)
(* ---------------------------------------------------------------------- *)
BACKEND_FONT ==
    << \hF0, \h90, \h90, \h90, \hF0,   \h20, \h60, \h20, \h20, \h70,
       \hF0, \h10, \hF0, \h80, \hF0,   \hF0, \h10, \hF0, \h10, \hF0,
       \h90, \h90, \hF0, \h10, \h10,   \hF0, \h80, \hF0, \h10, \hF0,
       \hF0, \h80, \hF0, \h90, \hF0,   \hF0, \h10, \h20, \h40, \h40,
       \hF0, \h90, \hF0, \h90, \hF0,   \hF0, \h90, \hF0, \h10, \hF0,
       \hF0, \h90, \hF0, \h90, \h90,   \hE0, \h90, \hE0, \h90, \hE0,
       \hF0, \h80, \h80, \h80, \hF0,   \hE0, \h90, \h90, \h90, \hE0,
       \hF0, \h80, \hF0, \h80, \hF0,   \hF0, \h80, \hF0, \h80, \h80,
       \h3C, \h7E, \hE7, \hC3, \hC3, \hC3, \hC3, \hE7, \h7E, \h3C,
       \h18, \h38, \h58, \h18, \h18, \h18, \h18, \h18, \h18, \h3C,
       \h3E, \h7F, \hC3, \h06, \h0C, \h18, \h30, \h60, \hFF, \hFF,
       \h3C, \h7E, \hC3, \h03, \h0E, \h0E, \h03, \hC3, \h7E, \h3C,
       \h06, \h0E, \h1E, \h36, \h66, \hC6, \hFF, \hFF, \h06, \h06,
       \hFF, \hFF, \hC0, \hC0, \hFC, \hFE, \h03, \hC3, \h7E, \h3C,
       \h3E, \h7C, \hC0, \hC0, \hFC, \hFE, \hC3, \hC3, \h7E, \h3C,
       \hFF, \hFF, \h03, \h06, \h0C, \h18, \h30, \h60, \h60, \h60,
       \h3C, \h7E, \hC3, \hC3, \h7E, \h7E, \hC3, \hC3, \h7E, \h3C,
       \h3C, \h7E, \hC3, \hC3, \h7F, \h3F, \h03, \h03, \h3E, \h7C >>

(* ---------------------------------------------------------------------- *)
(* Display buffer (interfaces.rs).  buffer is the set of lit pixels       *)
(* <<row, column>>; every other pixel of the W x H grid is off.           *)
(* ---------------------------------------------------------------------- *)
\* DisplayBuffer::new
DisplayBufferNew(display_options) ==
    [buffer |-> {}, dirty |-> FALSE, half_resolution |-> FALSE,
     options |-> display_options]

\* DisplayBuffer::clear
\* mutant of DisplayClear: the dirty flag is left as it was
DisplayClear_Clean(db) == [db EXCEPT !.buffer = {}]

DisplayClear(db) == [db EXCEPT !.buffer = {}, !.dirty = TRUE]

\* value as `width` booleans, most significant bit first (into_bitarray::<Msb0>)
Msb0Bits(value, width) == [k \in 1..width |-> Bit(value, width - k) = 1]

\* mutant of XorPixel: the pixel is set, not toggled
XorPixel_Or(acc, i, j, W, H) ==
    IF acc.panic \/ i >= H \/ j >= W
    THEN [acc EXCEPT !.panic = TRUE]
    ELSE IF <<i, j>> \in acc.buffer
         THEN [acc EXCEPT !.collided = TRUE]
         ELSE [acc EXCEPT !.buffer = @ \cup {<<i, j>>}]

\* self.buffer[i][j] ^= true; collided |= !self.buffer[i][j]
\* an index outside the grid is a panic (index out of bounds)
XorPixel(acc, i, j, W, H) ==
    IF acc.panic \/ i >= H \/ j >= W
    THEN [acc EXCEPT !.panic = TRUE]
    ELSE IF <<i, j>> \in acc.buffer
         THEN [acc EXCEPT !.buffer = @ \ {<<i, j>>}, !.collided = TRUE]
         ELSE [acc EXCEPT !.buffer = @ \cup {<<i, j>>}]

RECURSIVE DrawBits(_, _, _, _, _, _, _, _, _, _)
\* the inner loop of draw / draw_16x16 over the bits of one sprite row, from bit x
DrawBits(acc, cy, c0, bits, x, scaling_factor, half, clip, W, H) ==
    IF x = Len(bits) \/ acc.panic THEN acc
    ELSE LET cx0 == c0 + x * scaling_factor IN
         IF clip /\ cx0 = W THEN acc
         ELSE LET cx == cx0 % W
                  painted ==
                    IF ~bits[x + 1] THEN acc
                    ELSE IF ~half THEN XorPixel(acc, cy, cx, W, H)
                    ELSE XorPixel(XorPixel(XorPixel(XorPixel(acc,
                             cy, cx, W, H), cy, cx + 1, W, H),
                             cy + 1, cx, W, H), cy + 1, cx + 1, W, H)
              IN DrawBits(painted, cy, c0, bits, x + 1, scaling_factor,
                          half, clip, W, H)

\* the end of one sprite row: colliding_rows += collided as usize
DrawRowDone(st, r) ==
    [buffer |-> r.buffer,
     colliding_rows |-> st.colliding_rows + (IF r.collided THEN 1 ELSE 0),
     panic |-> r.panic]

RECURSIVE DrawRows(_, _, _, _, _, _, _, _, _)
\* the outer loop of draw / draw_16x16 over the sprite rows, from row y
DrawRows(st, coordinates, rows, y, scaling_factor, half, clip, W, H) ==
    IF y = Len(rows) \/ st.panic THEN st
    ELSE LET cy0 == coordinates[2] + y * scaling_factor IN
         IF clip /\ cy0 = H
         THEN [st EXCEPT !.colliding_rows = @ + (Len(rows) - y)]
         ELSE DrawRows(DrawRowDone(st,
                           DrawBits([buffer |-> st.buffer, collided |-> FALSE,
                                     panic |-> FALSE],
                                    cy0 % H, coordinates[1], rows[y + 1], 0,
                                    scaling_factor, half, clip, W, H)),
                       coordinates, rows, y + 1, scaling_factor, half,
                       clip, W, H)

\* the end of draw / draw_16x16: self.dirty = true; colliding_rows
DrawDone(db, st) ==
    [display_buffer |-> [db EXCEPT !.buffer = st.buffer, !.dirty = TRUE],
     colliding_rows |-> st.colliding_rows, panic |-> st.panic]

\* DisplayBuffer::draw_16x16; sprite is a sequence of 16-bit rows
draw_16x16(db, coordinates, sprite, W, H) ==
    DrawDone(db, DrawRows([buffer |-> db.buffer, colliding_rows |-> 0,
                           panic |-> FALSE],
                          <<coordinates[1] % W, coordinates[2] % H>>,
                          [i \in 1..Len(sprite) |-> Msb0Bits(sprite[i], 16)],
                          0, 1, FALSE, db.options.clip_sprites, W, H))

\* mutant of draw: the 8-wide draw wraps whatever clip_sprites says
draw_Unclipped(db, coordinates, sprite, W, H) ==
    IF Len(sprite) = 32 /\ ~db.half_resolution
    THEN draw_16x16(db, coordinates,
                    [i \in 1..16 |-> InstructionNew(sprite[2 * i - 1], sprite[2 * i])],
                    W, H)
    ELSE LET scaling_factor == IF db.half_resolution THEN 2 ELSE 1
         IN DrawDone(db, DrawRows([buffer |-> db.buffer, colliding_rows |-> 0,
                                   panic |-> FALSE],
                                  <<(coordinates[1] * scaling_factor) % W,
                                    (coordinates[2] * scaling_factor) % H>>,
                                  [i \in 1..Len(sprite) |-> Msb0Bits(sprite[i], 8)],
                                  0, scaling_factor, db.half_resolution,
                                  FALSE, W, H))

\* mutant of draw: the coordinates are wrapped but not scaled
draw_Unscaled(db, coordinates, sprite, W, H) ==
    IF Len(sprite) = 32 /\ ~db.half_resolution
    THEN draw_16x16(db, coordinates,
                    [i \in 1..16 |-> InstructionNew(sprite[2 * i - 1], sprite[2 * i])],
                    W, H)
    ELSE LET scaling_factor == IF db.half_resolution THEN 2 ELSE 1
         IN DrawDone(db, DrawRows([buffer |-> db.buffer, colliding_rows |-> 0,
                                   panic |-> FALSE],
                                  <<coordinates[1] % W,
                                    coordinates[2] % H>>,
                                  [i \in 1..Len(sprite) |-> Msb0Bits(sprite[i], 8)],
                                  0, scaling_factor, db.half_resolution,
                                  db.options.clip_sprites, W, H))

\* DisplayBuffer::draw; coordinates is <<x, y>>, sprite a sequence of bytes
draw(db, coordinates, sprite, W, H) ==
    IF Len(sprite) = 32 /\ ~db.half_resolution
    THEN draw_16x16(db, coordinates,
                    [i \in 1..16 |-> InstructionNew(sprite[2 * i - 1], sprite[2 * i])],
                    W, H)
    ELSE LET scaling_factor == IF db.half_resolution THEN 2 ELSE 1
         IN DrawDone(db, DrawRows([buffer |-> db.buffer, colliding_rows |-> 0,
                                   panic |-> FALSE],
                                  <<(coordinates[1] * scaling_factor) % W,
                                    (coordinates[2] * scaling_factor) % H>>,
                                  [i \in 1..Len(sprite) |-> Msb0Bits(sprite[i], 8)],
                                  0, scaling_factor, db.half_resolution,
                                  db.options.clip_sprites, W, H))

\* (*dest).copy_from_slice(src) on the rows dest and src of the grid
CopyRow(buffer, dest, src) ==
    {c \in buffer : c[1] # dest} \cup {<<dest, c[2]>> : c \in {b \in buffer : b[1] = src}}

\* row.fill(false)
FillRow(buffer, i) == {c \in buffer : c[1] # i}

\* self.buffer[i][dest] = self.buffer[i][src], in every row i
CopyColumn(buffer, dest, src) ==
    {c \in buffer : c[2] # dest} \cup {<<c[1], dest>> : c \in {b \in buffer : b[2] = src}}

\* self.buffer[i][j] = false, in every row i
FillColumn(buffer, j) == {c \in buffer : c[2] # j}

\* the distance of a scroll by n
ScrollDistance(db, n) ==
    IF db.half_resolution /\ ~db.options.half_pixel_scrolling THEN 2 * n ELSE n

\* The loops below run over the index range lo..hi - 1; a range of more than
\* one index is run as its first half followed by its second half (or, for a
\* reversed loop, its upper half followed by its lower half), the second
\* half on the grid the first half has produced.

\* scroll_down: the body of the loop for row i
ScrollDownRow(buffer, i, n) ==
    IF i < n THEN FillRow(CopyRow(buffer, i + n, i), i) ELSE CopyRow(buffer, i + n, i)

RECURSIVE ScrollDownRows(_, _, _, _)
\* scroll_down: for i in (lo..hi).rev()
ScrollDownRows(buffer, lo, hi, n) ==
    IF hi <= lo THEN buffer
    ELSE IF hi = lo + 1 THEN ScrollDownRow(buffer, lo, n)
    ELSE CHOOSE done \in
             {ScrollDownRows(upper, lo, (lo + hi) \div 2, n) :
                 upper \in {ScrollDownRows(buffer, (lo + hi) \div 2, hi, n)}} : TRUE

\* scroll_up: the body of the loop for row i
ScrollUpRow(buffer, i, n) ==
    IF i < n THEN FillRow(CopyRow(buffer, i, i + n), i + n) ELSE CopyRow(buffer, i, i + n)

RECURSIVE ScrollUpRows(_, _, _, _)
\* scroll_up: for i in lo..hi
ScrollUpRows(buffer, lo, hi, n) ==
    IF hi <= lo THEN buffer
    ELSE IF hi = lo + 1 THEN ScrollUpRow(buffer, lo, n)
    ELSE CHOOSE done \in
             {ScrollUpRows(lower, (lo + hi) \div 2, hi, n) :
                 lower \in {ScrollUpRows(buffer, lo, (lo + hi) \div 2, n)}} : TRUE

\* scroll_left: the body of the inner loop for column j; the rows fare alike
ScrollLeftColumn(buffer, j, n, W) ==
    IF j + n > W - n THEN FillColumn(CopyColumn(buffer, j, j + n), j + n)
    ELSE CopyColumn(buffer, j, j + n)

RECURSIVE ScrollLeftColumns(_, _, _, _, _)
\* scroll_left: for j in lo..hi
ScrollLeftColumns(buffer, lo, hi, n, W) ==
    IF hi <= lo THEN buffer
    ELSE IF hi = lo + 1 THEN ScrollLeftColumn(buffer, lo, n, W)
    ELSE CHOOSE done \in
             {ScrollLeftColumns(lower, (lo + hi) \div 2, hi, n, W) :
                 lower \in {ScrollLeftColumns(buffer, lo, (lo + hi) \div 2, n, W)}} : TRUE

\* scroll_right: the body of the inner loop for column j; the rows fare alike
ScrollRightColumn(buffer, j, n) ==
    IF j < n THEN FillColumn(CopyColumn(buffer, j + n, j), j)
    ELSE CopyColumn(buffer, j + n, j)

RECURSIVE ScrollRightColumns(_, _, _, _)
\* scroll_right: for j in (lo..hi).rev()
ScrollRightColumns(buffer, lo, hi, n) ==
    IF hi <= lo THEN buffer
    ELSE IF hi = lo + 1 THEN ScrollRightColumn(buffer, lo, n)
    ELSE CHOOSE done \in
             {ScrollRightColumns(upper, lo, (lo + hi) \div 2, n) :
                 upper \in {ScrollRightColumns(buffer, (lo + hi) \div 2, hi, n)}} : TRUE

\* the end of a scroll: the pixels moved, dirty set
Scrolled(db, buffer) == [db EXCEPT !.buffer = buffer, !.dirty = TRUE]

\* DisplayBuffer::scroll_down; H - n is taken for n <= H only
scroll_down(db, n, W, H) ==
    IF n = 0 THEN db
    ELSE Scrolled(db, ScrollDownRows(db.buffer, 0, H - ScrollDistance(db, n),
                                     ScrollDistance(db, n)))

\* DisplayBuffer::scroll_left
scroll_left(db, n, W, H) ==
    IF n = 0 THEN db
    ELSE Scrolled(db, ScrollLeftColumns(db.buffer, 0, W - ScrollDistance(db, n),
                                        ScrollDistance(db, n), W))

\* DisplayBuffer::scroll_right
scroll_right(db, n, W, H) ==
    IF n = 0 THEN db
    ELSE Scrolled(db, ScrollRightColumns(db.buffer, 0, W - ScrollDistance(db, n),
                                         ScrollDistance(db, n)))

\* DisplayBuffer::scroll_up
scroll_up(db, n, W, H) ==
    IF n = 0 THEN db
    ELSE Scrolled(db, ScrollUpRows(db.buffer, 0, H - ScrollDistance(db, n),
                                   ScrollDistance(db, n)))

(* ---------------------------------------------------------------------- *)
(* Keypad (interfaces.rs)                                                 *)
(* ---------------------------------------------------------------------- *)
KeyIndex == 0..(KEY_COUNT - 1)

\* KeypadState::new
KeypadNew == [state |-> [i \in KeyIndex |-> "Released"],
              last_state |-> [i \in KeyIndex |-> "Released"]]

\* KeypadState::pressed
pressed(kp, key) == kp.state[key] = "Held"

\* mutant of pressed_key: reports the key while it is held, not on its release
pressed_key_WhileHeld(kp) ==
    LET held == {i \in KeyIndex : kp.state[i] = "Held"}
    IN IF held = {} THEN << >>
       ELSE << CHOOSE i \in held : \A j \in held : i <= j >>

\* KeypadState::pressed_key: <<k>> is Some(k), << >> is None
pressed_key(kp) ==
    LET edges == {i \in KeyIndex : kp.last_state[i] = "Held" /\ kp.state[i] = "Released"}
    IN IF edges = {} THEN << >>
       ELSE << CHOOSE i \in edges : \A j \in edges : i <= j >>

\* KeypadState::update; input is the set of keys whose mapped physical key is down
update(kp, input) ==
    [state |-> [i \in KeyIndex |-> IF i \in input THEN "Held" ELSE "Released"],
     last_state |-> kp.state]

(* ---------------------------------------------------------------------- *)
(* Results of execute: Ok(Continue), Ok(Break), Err(BackendError), panic  *)
(* ---------------------------------------------------------------------- *)
NoInstruction == << >>

NoError == [kind |-> "None", instruction |-> NoInstruction]

\* BackendError { instruction: Some((at, Some(w))), kind }
BackendError(kind, at, w) == [kind |-> kind, instruction |-> <<at, <<w>> >>]

Continue(m) == [m |-> m, flow |-> "Continue", error |-> NoError]

Break(m) == [m |-> m, flow |-> "Break", error |-> NoError]

\* mutant of Err: the failing instruction's fetch is undone
Err_Rewound(m, kind, at, w) ==
    [m |-> [m EXCEPT !.index = at], flow |-> "Err", error |-> BackendError(kind, at, w)]

Err(m, kind, at, w) == [m |-> m, flow |-> "Err", error |-> BackendError(kind, at, w)]

\* a Rust panic (index out of bounds, slice length mismatch): the process aborts
Panic(m) == [m |-> m, flow |-> "Panic", error |-> NoError]

SetV(m, x, v) == [m EXCEPT !.registers.general[x] = v]

(* ---------------------------------------------------------------------- *)
(* Classic core: chip8::Backend::execute                                  *)
(* m is the backend, connected tells whether display_buffer is Some,      *)
(* index the address the instruction w was fetched at, random_byte the    *)
(* value rand::random::<u8>() returns if it is called                     *)
(* ---------------------------------------------------------------------- *)
\* mutant of chip8_execute_0: RET on an empty stack returns to address 0
chip8_execute_0_Wrapping(m, connected, W, H, index, w) ==
    CASE operand_nnn(w) = \h0E0 ->
           IF ~connected THEN Err(m, "DisplayNotConnected", index, w)
           ELSE Continue([m EXCEPT !.display_buffer = DisplayClear(@)])
      [] operand_nnn(w) = \h0EE ->
           IF Len(m.stack) = 0 THEN Continue([m EXCEPT !.index = 0])
           ELSE Continue([m EXCEPT !.index = m.stack[Len(m.stack)],
                                   !.stack = SubSeq(@, 1, Len(@) - 1)])
      [] OTHER -> Continue(m)

\* 0x0: 00E0, 00EE, ignored 0NNN
chip8_execute_0(m, connected, W, H, index, w) ==
    CASE operand_nnn(w) = \h0E0 ->
           IF ~connected THEN Err(m, "DisplayNotConnected", index, w)
           ELSE Continue([m EXCEPT !.display_buffer = DisplayClear(@)])
      [] operand_nnn(w) = \h0EE ->
           IF Len(m.stack) = 0 THEN Err(m, "StackUnderflow", index, w)
           ELSE Continue([m EXCEPT !.index = m.stack[Len(m.stack)],
                                   !.stack = SubSeq(@, 1, Len(@) - 1)])
      [] OTHER -> Continue(m)

\* mutant of chip8_execute_jump: the capacity check lets one entry too many in
chip8_execute_jump_Unchecked(m, index, w) ==
    IF operator_code(w) = 2 /\ Len(m.stack) > CHIP8_STACK_SIZE
    THEN Err(m, "StackOverflow", index, w)
    ELSE LET pushed == IF operator_code(w) = 2
                       THEN [m EXCEPT !.stack = Append(@, m.index % 65536)]
                       ELSE m
         IN Continue([pushed EXCEPT !.index = operand_nnn(w)])

\* mutant of chip8_execute_jump: CALL pushes the address of the CALL itself
chip8_execute_jump_PushesCallSite(m, index, w) ==
    IF operator_code(w) = 2 /\ Len(m.stack) = CHIP8_STACK_SIZE
    THEN Err(m, "StackOverflow", index, w)
    ELSE LET pushed == IF operator_code(w) = 2
                       THEN [m EXCEPT !.stack = Append(@, index % 65536)]
                       ELSE m
         IN Continue([pushed EXCEPT !.index = operand_nnn(w)])

\* 0x1 | 0x2: JP, CALL
chip8_execute_jump(m, index, w) ==
    IF operator_code(w) = 2 /\ Len(m.stack) = CHIP8_STACK_SIZE
    THEN Err(m, "StackOverflow", index, w)
    ELSE LET pushed == IF operator_code(w) = 2
                       THEN [m EXCEPT !.stack = Append(@, m.index % 65536)]
                       ELSE m
         IN Continue([pushed EXCEPT !.index = operand_nnn(w)])

\* 0x3 | 0x4 | 0x5 | 0x9: conditional skips
chip8_execute_skip(m, w) ==
    LET V == m.registers.general
        opcode == operator_code(w)
        taken == \/ opcode = 3 /\ V[operand_x(w)] = operand_nn(w)
                 \/ opcode = 4 /\ V[operand_x(w)] # operand_nn(w)
                 \/ opcode = 5 /\ V[operand_x(w)] = V[operand_y(w)]
                 \/ opcode = 9 /\ V[operand_x(w)] # V[operand_y(w)]
    IN IF taken THEN Continue([m EXCEPT !.index = @ + INSTRUCTION_SIZE])
       ELSE Continue(m)

\* 8XY5 | 8XY7: result and flag are both read before either is written
chip8_execute_sub(m, w) ==
    LET V == m.registers.general
        x == operand_x(w)
        y == operand_y(w)
        result == IF operand_n(w) = 5 THEN wrapping_sub(V[x], V[y])
                  ELSE wrapping_sub(V[y], V[x])
        flag == IF operand_n(w) = 5 THEN V[x] >= V[y] ELSE V[y] >= V[x]
    IN Continue(SetV(SetV(m, x, result), 15, IF flag THEN 1 ELSE 0))

\* 8XY6 | 8XYE
chip8_execute_shift(m, w) ==
    LET x == operand_x(w)
        y == operand_y(w)
        copied == IF m.options.copy_and_shift
                  THEN SetV(m, x, m.registers.general[y]) ELSE m
        v == copied.registers.general[x]
        result == IF operand_n(w) = 6 THEN v \div 2 ELSE (v * 2) % 256
        flag == IF operand_n(w) = 6 THEN v % 2 ELSE v \div 128
    IN Continue(SetV(SetV(copied, x, result), 15, flag))

\* mutant of chip8_execute_8: 8XY4 writes the flag before the result
chip8_execute_8_FlagFirst(m, index, w) ==
    LET V == m.registers.general
        x == operand_x(w)
        y == operand_y(w)
        n == operand_n(w)
        reset(b) == IF m.options.reset_flag THEN SetV(b, 15, 0) ELSE b
    IN CASE n = 0 -> Continue(SetV(m, x, V[y]))
         [] n = 1 -> Continue(reset(SetV(m, x, BitOr(V[x], V[y]))))
         [] n = 2 -> Continue(reset(SetV(m, x, BitAnd(V[x], V[y]))))
         [] n = 3 -> Continue(reset(SetV(m, x, BitXor(V[x], V[y]))))
         [] n = 4 -> Continue(SetV(SetV(m, 15, IF V[x] + V[y] > 255 THEN 1 ELSE 0),
                                   x, (V[x] + V[y]) % 256))
         [] n \in {5, 7} -> chip8_execute_sub(m, w)
         [] n \in {6, 14} -> chip8_execute_shift(m, w)
         [] OTHER -> Err(m, "UnrecognizedInstruction", index, w)

\* 0x8: register to register
chip8_execute_8(m, index, w) ==
    LET V == m.registers.general
        x == operand_x(w)
        y == operand_y(w)
        n == operand_n(w)
        reset(b) == IF m.options.reset_flag THEN SetV(b, 15, 0) ELSE b
    IN CASE n = 0 -> Continue(SetV(m, x, V[y]))
         [] n = 1 -> Continue(reset(SetV(m, x, BitOr(V[x], V[y]))))
         [] n = 2 -> Continue(reset(SetV(m, x, BitAnd(V[x], V[y]))))
         [] n = 3 -> Continue(reset(SetV(m, x, BitXor(V[x], V[y]))))
         [] n = 4 -> Continue(SetV(SetV(m, x, (V[x] + V[y]) % 256), 15,
                                   IF V[x] + V[y] > 255 THEN 1 ELSE 0))
         [] n \in {5, 7} -> chip8_execute_sub(m, w)
         [] n \in {6, 14} -> chip8_execute_shift(m, w)
         [] OTHER -> Err(m, "UnrecognizedInstruction", index, w)

\* the end of DXYN on the classic core: V[F] = (colliding_rows > 0), then Break
chip8_execute_drawn(m, d) ==
    IF d.panic THEN Panic([m EXCEPT !.display_buffer = d.display_buffer])
    ELSE Break(SetV([m EXCEPT !.display_buffer = d.display_buffer], 15,
                    IF d.colliding_rows > 0 THEN 1 ELSE 0))

\* 0xD: DXYN on the classic core
chip8_execute_draw(m, connected, W, H, index, w) ==
    LET V == m.registers.general
        n == operand_n(w)
    IN IF m.registers.address + n >= MEMORY_SIZE
       THEN Err(m, "MemoryOverflow", index, w)
       ELSE IF ~connected THEN Err(m, "DisplayNotConnected", index, w)
       ELSE chip8_execute_drawn(m,
                draw(m.display_buffer, <<V[operand_x(w)], V[operand_y(w)]>>,
                     MemSlice(m.memory, m.registers.address, n), W, H))

\* mutant of chip8_execute_E: an unknown EXnn is skipped over without an error
chip8_execute_E_Ignoring(m, index, w) ==
    LET key == m.registers.general[operand_x(w)]
        skip == [m EXCEPT !.index = @ + INSTRUCTION_SIZE]
    IN CASE operand_nn(w) = \h9E ->
              IF key >= KEY_COUNT THEN Err(m, "UnrecognizedKey", index, w)
              ELSE IF pressed(m.keypad, key) THEN Continue(skip) ELSE Continue(m)
         [] operand_nn(w) = \hA1 ->
              IF key >= KEY_COUNT THEN Err(m, "UnrecognizedKey", index, w)
              ELSE IF ~pressed(m.keypad, key) THEN Continue(skip) ELSE Continue(m)
         [] OTHER -> Continue(m)

\* 0xE: EX9E, EXA1
chip8_execute_E(m, index, w) ==
    LET key == m.registers.general[operand_x(w)]
        skip == [m EXCEPT !.index = @ + INSTRUCTION_SIZE]
    IN CASE operand_nn(w) = \h9E ->
              IF key >= KEY_COUNT THEN Err(m, "UnrecognizedKey", index, w)
              ELSE IF pressed(m.keypad, key) THEN Continue(skip) ELSE Continue(m)
         [] operand_nn(w) = \hA1 ->
              IF key >= KEY_COUNT THEN Err(m, "UnrecognizedKey", index, w)
              ELSE IF ~pressed(m.keypad, key) THEN Continue(skip) ELSE Continue(m)
         [] OTHER -> Err(m, "UnrecognizedInstruction", index, w)

\* mutant of chip8_execute_wait: the PC is not rewound when no key was released
chip8_execute_wait_NoRewind(m, index, w) ==
    LET key == pressed_key(m.keypad)
    IN IF Len(key) = 1 THEN Break(SetV(m, operand_x(w), key[1]))
       ELSE Break(m)

\* FX0A: wait for a key release
chip8_execute_wait(m, index, w) ==
    LET key == pressed_key(m.keypad)
    IN IF Len(key) = 1 THEN Break(SetV(m, operand_x(w), key[1]))
       ELSE Break([m EXCEPT !.index = index])

\* mutant of chip8_execute_bcd: the tens digit is not reduced modulo 10
chip8_execute_bcd_Tens(m, index, w) ==
    LET I == m.registers.address
        number == m.registers.general[operand_x(w)]
    IN IF I + 2 >= MEMORY_SIZE THEN Err(m, "MemoryOverflow", index, w)
       ELSE Continue([m EXCEPT !.memory =
                MemWrite(MemWrite(MemWrite(@, I, (number \div 10) \div 10),
                                  I + 1, number \div 10),
                         I + 2, number % 10)])

\* FX33: binary coded decimal
chip8_execute_bcd(m, index, w) ==
    LET I == m.registers.address
        number == m.registers.general[operand_x(w)]
    IN IF I + 2 >= MEMORY_SIZE THEN Err(m, "MemoryOverflow", index, w)
       ELSE Continue([m EXCEPT !.memory =
                MemWrite(MemWrite(MemWrite(@, I, (number \div 10) \div 10),
                                  I + 1, (number \div 10) % 10),
                         I + 2, number % 10)])

\* mutant of chip8_execute_store: copies V[0..x), one register short
chip8_execute_store_Lenient(m, index, w) ==
    LET I == m.registers.address
        x == operand_x(w)
    IN IF I + x > MEMORY_SIZE THEN Err(m, "MemoryOverflow", index, w)
       ELSE LET stored == [m EXCEPT !.memory =
                    MemCopy(@, I, [i \in 1..(x + 1) |-> m.registers.general[i - 1]])]
            IN IF m.options.increment_address
               THEN Continue([stored EXCEPT !.registers.address = @ + x + 1])
               ELSE Continue(stored)

chip8_execute_store_Exclusive(m, index, w) ==
    LET I == m.registers.address
        x == operand_x(w)
    IN IF I + x >= MEMORY_SIZE THEN Err(m, "MemoryOverflow", index, w)
       ELSE LET stored == [m EXCEPT !.memory =
                    MemCopy(@, I, [i \in 1..x |-> m.registers.general[i - 1]])]
            IN IF m.options.increment_address
               THEN Continue([stored EXCEPT !.registers.address = @ + x + 1])
               ELSE Continue(stored)

\* FX55: the error carries the instruction's own address
chip8_execute_store(m, index, w) ==
    LET I == m.registers.address
        x == operand_x(w)
    IN IF I + x >= MEMORY_SIZE THEN Err(m, "MemoryOverflow", index, w)
       ELSE LET stored == [m EXCEPT !.memory =
                    MemCopy(@, I, [i \in 1..(x + 1) |-> m.registers.general[i - 1]])]
            IN IF m.options.increment_address
               THEN Continue([stored EXCEPT !.registers.address = @ + x + 1])
               ELSE Continue(stored)

\* FX65: the error carries self.index, the address after the instruction
chip8_execute_load(m, index, w) ==
    LET I == m.registers.address
        x == operand_x(w)
    IN IF I + x >= MEMORY_SIZE THEN Err(m, "MemoryOverflow", m.index, w)
       ELSE LET loaded == [m EXCEPT !.registers.general =
                    [i \in 0..(REGISTER_COUNT - 1) |->
                        IF i <= x THEN MemRead(m.memory, I + i) ELSE @[i]]]
            IN IF m.options.increment_address
               THEN Continue([loaded EXCEPT !.registers.address = @ + x + 1])
               ELSE Continue(loaded)

\* 0xF: timers, keys, address register, memory
chip8_execute_F(m, index, w) ==
    LET V == m.registers.general
        x == operand_x(w)
        nn == operand_nn(w)
    IN CASE nn = \h07 -> Continue(SetV(m, x, m.timers.delay))
         [] nn = \h0A -> chip8_execute_wait(m, index, w)
         [] nn = \h15 -> Continue([m EXCEPT !.timers.delay = V[x]])
         [] nn = \h18 -> Continue([m EXCEPT !.timers.sound = V[x]])
         [] nn = \h1E -> Continue([m EXCEPT !.registers.address = (@ + V[x]) % 4096])
         [] nn = \h29 ->
              IF V[x] >= KEY_COUNT THEN Err(m, "UnrecognizedSprite", index, w)
              ELSE Continue([m EXCEPT !.registers.address = V[x] * CHARACTER_SIZE])
         [] nn = \h33 -> chip8_execute_bcd(m, index, w)
         [] nn = \h55 -> chip8_execute_store(m, index, w)
         [] nn = \h65 -> chip8_execute_load(m, index, w)
         [] OTHER -> Err(m, "UnrecognizedInstruction", index, w)

chip8_execute(m, connected, W, H, index, w, random_byte) ==
    LET op == operator_code(w)
        x == operand_x(w)
        V == m.registers.general
    IN CASE op = 0 -> chip8_execute_0(m, connected, W, H, index, w)
         [] op \in {1, 2} -> chip8_execute_jump(m, index, w)
         [] op \in {3, 4, 5, 9} -> chip8_execute_skip(m, w)
         [] op = 6 -> Continue(SetV(m, x, operand_nn(w)))
         [] op = 7 -> Continue(SetV(m, x, wrapping_add(V[x], operand_nn(w))))
         [] op = 8 -> chip8_execute_8(m, index, w)
         [] op = 10 -> Continue([m EXCEPT !.registers.address = operand_nnn(w)])
         [] op = 11 -> Continue([m EXCEPT !.index =
                          V[IF m.options.quirky_jump THEN x ELSE 0] + operand_nnn(w)])
         [] op = 12 -> Continue(SetV(m, x, BitAnd(random_byte, operand_nn(w))))
         [] op = 13 -> chip8_execute_draw(m, connected, W, H, index, w)
         [] op = 14 -> chip8_execute_E(m, index, w)
         [] op = 15 -> chip8_execute_F(m, index, w)

(* ---------------------------------------------------------------------- *)
(* SUPER-CHIP overlay: super_chip::Backend::execute                       *)
(* the inner classic core has no display attached (display_buffer: None)  *)
(* ---------------------------------------------------------------------- *)
\* the end of DXYN on SUPER-CHIP: V[F] is a flag in half resolution and the
\* count of colliding rows otherwise; no Break
super_chip_execute_drawn(m, d) ==
    IF d.panic THEN Panic([m EXCEPT !.display_buffer = d.display_buffer])
    ELSE Continue(SetV([m EXCEPT !.display_buffer = d.display_buffer], 15,
                       IF m.display_buffer.half_resolution
                       THEN (IF d.colliding_rows > 0 THEN 1 ELSE 0)
                       ELSE d.colliding_rows % 256))

\* 0xD: DXYN / DXY0 on SUPER-CHIP; falls through to Ok(Continue)
super_chip_execute_draw(m, W, H, index, w) ==
    LET V == m.registers.general
        n == IF ~m.display_buffer.half_resolution /\ operand_n(w) = 0
             THEN 32 ELSE operand_n(w)
    IN IF m.registers.address + n >= MEMORY_SIZE
       THEN Err(m, "MemoryOverflow", index, w)
       ELSE super_chip_execute_drawn(m,
                draw(m.display_buffer, <<V[operand_x(w)], V[operand_y(w)]>>,
                     MemSlice(m.memory, m.registers.address, n), W, H))

\* mutant of super_chip_execute_font: bit 4 of a hires code is not looked at
super_chip_execute_font_AnyHigh(m, index, w) ==
    LET character_code == m.registers.general[operand_x(w)]
    IN IF character_code < KEY_COUNT
       THEN Continue([m EXCEPT !.registers.address = character_code * CHARACTER_SIZE])
       ELSE IF character_code % 16 >= HIRES_CHARACTER_COUNT
       THEN Err(m, "UnrecognizedSprite", index, w)
       ELSE Continue([m EXCEPT !.registers.address =
                FONT_SIZE + (character_code % 16) * HIRES_CHARACTER_SIZE])

\* FX29 on SUPER-CHIP: classic glyphs and hires glyph codes
super_chip_execute_font(m, index, w) ==
    LET character_code == m.registers.general[operand_x(w)]
    IN IF character_code < KEY_COUNT
       THEN Continue([m EXCEPT !.registers.address = character_code * CHARACTER_SIZE])
       ELSE IF Bit(character_code, 4) = 0 \/ character_code % 16 >= HIRES_CHARACTER_COUNT
       THEN Err(m, "UnrecognizedSprite", index, w)
       ELSE Continue([m EXCEPT !.registers.address =
                FONT_SIZE + (character_code % 16) * HIRES_CHARACTER_SIZE])

\* FX30
super_chip_execute_hires_font(m, index, w) ==
    LET character_code == m.registers.general[operand_x(w)]
    IN IF character_code >= HIRES_CHARACTER_COUNT
       THEN Err(m, "UnrecognizedSprite", index, w)
       ELSE Continue([m EXCEPT !.registers.address =
                FONT_SIZE + character_code * HIRES_CHARACTER_SIZE])

\* FX75: persistent_storage.copy_from_slice(&general[..=min(x, 7)]);
\* copy_from_slice panics unless both slices have the same length
super_chip_execute_save(m, w) ==
    LET last == Min(operand_x(w), PERSISTENT_STORAGE_SIZE - 1)
    IN IF Len(m.persistent_storage) # last + 1 THEN Panic(m)
       ELSE Continue([m EXCEPT !.persistent_storage =
                [i \in 1..(last + 1) |-> m.registers.general[i - 1]]])

\* FX85: general[..=min(x, 7)].copy_from_slice(&persistent_storage[..8])
super_chip_execute_restore(m, w) ==
    LET last == Min(operand_x(w), PERSISTENT_STORAGE_SIZE - 1)
    IN IF Len(m.persistent_storage) < PERSISTENT_STORAGE_SIZE
          \/ last + 1 # PERSISTENT_STORAGE_SIZE
       THEN Panic(m)
       ELSE Continue([m EXCEPT !.registers.general =
                [i \in 0..(REGISTER_COUNT - 1) |->
                    IF i <= last THEN m.persistent_storage[i + 1] ELSE @[i]]])

super_chip_execute(m, W, H, index, w, random_byte) ==
    LET op == operator_code(w)
    IN CASE op = 0 /\ operand_nnn(w) = \h0E0 ->
              Continue([m EXCEPT !.display_buffer = DisplayClear(@)])
         [] op = 0 /\ operand_nnn(w) = \h0FD ->
              Break([m EXCEPT !.program_exited = TRUE])
         [] op = 0 /\ operand_nnn(w) = \h0FE ->
              Continue([m EXCEPT !.display_buffer.half_resolution = TRUE])
         [] op = 0 /\ operand_nnn(w) = \h0FF ->
              Continue([m EXCEPT !.display_buffer.half_resolution = FALSE])
         [] op = 13 -> super_chip_execute_draw(m, W, H, index, w)
         [] op = 15 /\ operand_nn(w) = \h29 -> super_chip_execute_font(m, index, w)
         [] op = 15 /\ operand_nn(w) = \h30 -> super_chip_execute_hires_font(m, index, w)
         [] op = 15 /\ operand_nn(w) = \h75 -> super_chip_execute_save(m, w)
         [] op = 15 /\ operand_nn(w) = \h85 -> super_chip_execute_restore(m, w)
         [] OTHER -> chip8_execute(m, FALSE, W, H, index, w, random_byte)

(* ---------------------------------------------------------------------- *)
(* Monolithic core: the body of the loop of backend::Backend::tick        *)
(* (mod.rs).  Its display buffer and keyboard are handed in by the        *)
(* caller; "Break" is the loop's break, "Continue" the next iteration.    *)
(* ---------------------------------------------------------------------- *)
\* KeyboardState::set(key, false): the key reads as not pressed afterwards
KeyboardSet(kp, key) == [kp EXCEPT !.state[key] = "Released"]

\* 0x1 | 0x2
legacy_execute_jump(m, last_index, w) ==
    IF operator_code(w) = 2 /\ Len(m.stack) = LEGACY_STACK_SIZE
    THEN Err(m, "StackOverflow", last_index, w)
    ELSE LET pushed == IF operator_code(w) = 2
                       THEN [m EXCEPT !.stack = Append(@, m.index % 65536)]
                       ELSE m
         IN Continue([pushed EXCEPT !.index = operand_nnn(w)])

\* 8XY5 | 8XY7: the flag is computed with a strict comparison
legacy_execute_sub(m, w) ==
    LET V == m.registers.general
        x == operand_x(w)
        y == operand_y(w)
        result == IF operand_n(w) = 5 THEN wrapping_sub(V[x], V[y])
                  ELSE wrapping_sub(V[y], V[x])
        flag == IF operand_n(w) = 5 THEN V[x] > V[y] ELSE V[y] > V[x]
    IN Continue(SetV(SetV(m, x, result), 15, IF flag THEN 1 ELSE 0))

\* 8XY6 | 8XYE: the result shifts V[y], the flag reads V[x]
legacy_execute_shift(m, w) ==
    LET V == m.registers.general
        x == operand_x(w)
        y == operand_y(w)
        result == IF operand_n(w) = 6 THEN V[y] \div 2 ELSE (V[y] * 2) % 256
        flag == IF operand_n(w) = 6 THEN V[x] % 2 ELSE V[x] \div 128
    IN Continue(SetV(SetV(m, x, result), 15, flag))

\* 0x8
legacy_execute_8(m, last_index, w) ==
    LET V == m.registers.general
        x == operand_x(w)
        y == operand_y(w)
        n == operand_n(w)
    IN CASE n = 0 -> Continue(SetV(m, x, V[y]))
         [] n = 1 -> Continue(SetV(SetV(m, x, BitOr(V[x], V[y])), 15, 0))
         [] n = 2 -> Continue(SetV(SetV(m, x, BitAnd(V[x], V[y])), 15, 0))
         [] n = 3 -> Continue(SetV(SetV(m, x, BitXor(V[x], V[y])), 15, 0))
         [] n = 4 -> Continue(SetV(SetV(m, x, (V[x] + V[y]) % 256), 15,
                                   IF V[x] + V[y] > 255 THEN 1 ELSE 0))
         [] n \in {5, 7} -> legacy_execute_sub(m, w)
         [] n \in {6, 14} -> legacy_execute_shift(m, w)
         [] OTHER -> Err(m, "UnrecognizedInstruction", last_index, w)

\* the end of 0xD: V[F] = draw(..) as u8
legacy_execute_drawn(m, d) ==
    IF d.panic THEN Panic([m EXCEPT !.display_buffer = d.display_buffer])
    ELSE Continue(SetV([m EXCEPT !.display_buffer = d.display_buffer], 15,
                       d.colliding_rows % 256))

\* 0xD: V[F] takes the value draw returns; the loop goes on
legacy_execute_draw(m, W, H, last_index, w) ==
    LET V == m.registers.general
        n == operand_n(w)
    IN IF m.registers.address + n >= MEMORY_SIZE
       THEN Err(m, "MemoryOverflow", last_index, w)
       ELSE legacy_execute_drawn(m,
                draw(m.display_buffer, <<V[operand_x(w)], V[operand_y(w)]>>,
                     MemSlice(m.memory, m.registers.address, n), W, H))

\* 0xE: the key index is not range-checked before it indexes the keyboard
legacy_execute_E(m, last_index, w) ==
    LET key == m.registers.general[operand_x(w)]
        skip == [m EXCEPT !.index = @ + INSTRUCTION_SIZE]
    IN CASE operand_nn(w) = \h9E ->
              IF key >= KEY_COUNT THEN Panic(m)
              ELSE IF ~pressed(m.keypad, key) THEN Break(m)
              ELSE Continue([skip EXCEPT !.keypad = KeyboardSet(@, key)])
         [] operand_nn(w) = \hA1 ->
              IF key >= KEY_COUNT THEN Panic(m)
              ELSE IF pressed(m.keypad, key)
              THEN Break([m EXCEPT !.keypad = KeyboardSet(@, key)])
              ELSE Continue(skip)
         [] OTHER -> Err(m, "UnrecognizedInstruction", last_index, w)

\* FX0A
legacy_execute_wait(m, last_index, w) ==
    LET key == pressed_key(m.keypad)
    IN IF Len(key) = 1
       THEN Break([SetV(m, operand_x(w), key[1]) EXCEPT !.keypad = KeyboardSet(@, key[1])])
       ELSE Break([m EXCEPT !.index = last_index])

\* FX55: always advances the address register
legacy_execute_store(m, last_index, w) ==
    LET I == m.registers.address
        x == operand_x(w)
    IN IF I + x >= MEMORY_SIZE THEN Err(m, "MemoryOverflow", last_index, w)
       ELSE Continue([m EXCEPT
                !.memory = MemCopy(@, I, [i \in 1..(x + 1) |-> m.registers.general[i - 1]]),
                !.registers.address = @ + x + 1])

\* FX65: always advances the address register; the error carries self.index
legacy_execute_load(m, last_index, w) ==
    LET I == m.registers.address
        x == operand_x(w)
    IN IF I + x >= MEMORY_SIZE THEN Err(m, "MemoryOverflow", m.index, w)
       ELSE Continue([m EXCEPT
                !.registers.general = [i \in 0..(REGISTER_COUNT - 1) |->
                        IF i <= x THEN MemRead(m.memory, I + i) ELSE @[i]],
                !.registers.address = @ + x + 1])

\* 0xF
legacy_execute_F(m, last_index, w) ==
    LET V == m.registers.general
        x == operand_x(w)
        nn == operand_nn(w)
    IN CASE nn = \h07 -> Continue(SetV(m, x, m.timers.delay))
         [] nn = \h0A -> legacy_execute_wait(m, last_index, w)
         [] nn = \h15 -> Continue([m EXCEPT !.timers.delay = V[x]])
         [] nn = \h18 -> Continue([m EXCEPT !.timers.sound = V[x]])
         [] nn = \h1E -> Continue([m EXCEPT !.registers.address = (@ + V[x]) % 4096])
         [] nn = \h29 ->
              IF V[x] >= KEY_COUNT THEN Err(m, "UnrecognizedSprite", last_index, w)
              ELSE Continue([m EXCEPT !.registers.address = V[x] * CHARACTER_SIZE])
         [] nn = \h33 -> chip8_execute_bcd(m, last_index, w)
         [] nn = \h55 -> legacy_execute_store(m, last_index, w)
         [] nn = \h65 -> legacy_execute_load(m, last_index, w)
         [] OTHER -> Err(m, "UnrecognizedInstruction", last_index, w)

legacy_execute(m, W, H, last_index, w, random_byte) ==
    LET op == operator_code(w)
        x == operand_x(w)
        V == m.registers.general
    IN CASE op = 0 /\ operand_nnn(w) = \h0E0 ->
              Continue([m EXCEPT !.display_buffer = DisplayClear(@)])
         [] op = 0 /\ operand_nnn(w) = \h0EE ->
              IF Len(m.stack) = 0 THEN Err(m, "StackUnderflow", last_index, w)
              ELSE Continue([m EXCEPT !.index = m.stack[Len(m.stack)],
                                      !.stack = SubSeq(@, 1, Len(@) - 1)])
         [] op = 0 /\ operand_nnn(w) \notin {\h0E0, \h0EE} -> Continue(m)
         [] op \in {1, 2} -> legacy_execute_jump(m, last_index, w)
         [] op \in {3, 4, 5, 9} -> chip8_execute_skip(m, w)
         [] op = 6 -> Continue(SetV(m, x, operand_nn(w)))
         [] op = 7 -> Continue(SetV(m, x, wrapping_add(V[x], operand_nn(w))))
         [] op = 8 -> legacy_execute_8(m, last_index, w)
         [] op = 10 -> Continue([m EXCEPT !.registers.address = operand_nnn(w)])
         [] op = 11 -> Continue([m EXCEPT !.index = V[0] + operand_nnn(w)])
         [] op = 12 -> Continue(SetV(m, x, BitAnd(random_byte, operand_nn(w))))
         [] op = 13 -> legacy_execute_draw(m, W, H, last_index, w)
         [] op = 14 -> legacy_execute_E(m, last_index, w)
         [] op = 15 -> legacy_execute_F(m, last_index, w)

(* ---------------------------------------------------------------------- *)
(* State                                                                  *)
(* ---------------------------------------------------------------------- *)
VARIABLES
    kind,       \* which core the backend is: "chip8", "super_chip" or "legacy"
    backend,    \* the core's fields, with the keypad and the persistent
                \* storage the host lends to tick
    program,    \* the program bytes the host has selected for load
    phase,      \* "idle": no call in progress; "loop": inside the loop of tick
    left,       \* iterations the loop of the running tick(n) still has to make
    result,     \* what the last load or tick returned
    last,       \* observation: the last action, and for a Step the instruction
                \* it fetched and the registers, PC, stack and timers before it
    tick_log,   \* observation: facts about the tick in progress or just ended
                \* and the number of fetches refused since the last reset
    state       \* the host application's State: emulation and menu

vars == <<kind, backend, program, phase, left, result, last, tick_log, state>>

\* backend::Options
ChipOptions == [copy_and_shift |-> TRUE, increment_address |-> TRUE,
                quirky_jump |-> FALSE, reset_flag |-> TRUE]

SuperChipOptions == [copy_and_shift |-> FALSE, increment_address |-> FALSE,
                     quirky_jump |-> TRUE, reset_flag |-> FALSE]

DefaultOptions(k) == IF k = "super_chip" THEN SuperChipOptions ELSE ChipOptions

DefaultDisplayOptions == [clip_sprites |-> TRUE, half_pixel_scrolling |-> FALSE]

\* chip8::Backend::new, super_chip::Backend::new, backend::Backend::new, with
\* KeypadState::new and a zeroed persistent storage on the host's side
BackendNew(k, options, display_options) ==
    [index |-> MEMORY_PADDING,
     loaded |-> FALSE,
     memory |-> ZeroMemory,
     options |-> options,
     registers |-> [address |-> 0, general |-> [i \in 0..(REGISTER_COUNT - 1) |-> 0]],
     stack |-> << >>,
     timers |-> [delay |-> 0, sound |-> 0],
     display_buffer |-> [DisplayBufferNew(display_options)
                           EXCEPT !.half_resolution = (k = "super_chip")],
     program_exited |-> FALSE,
     keypad |-> KeypadNew,
     persistent_storage |-> [i \in 1..PERSISTENT_STORAGE_SIZE |-> 0]]

Ok == [status |-> "Ok", error |-> NoError]

Failed(error) == [status |-> "Err", error |-> error]

NotCalled == [status |-> "None", error |-> NoError]

Panicked == [status |-> "Panic", error |-> NoError]

Snapshot(b) == [index |-> b.index, registers |-> b.registers, stack |-> b.stack,
                timers |-> b.timers, buffer |-> b.display_buffer.buffer,
                memory |-> b.memory, persistent_storage |-> b.persistent_storage]

NoSnapshot == Snapshot(BackendNew("chip8", ChipOptions, DefaultDisplayOptions))

Did(action) == [action |-> action, at |-> 0, instruction |-> 0, before |-> NoSnapshot]

\* entered: a tick has passed its loaded check since the last reset;
\* timers: the timers it found; wrote_delay, wrote_sound: << >>, or
\* <<v>> when it has executed an FX15, an FX18 that wrote v last;
\* drew_or_waited: it has executed a DXYN or an FX0A
NoTick == [entered |-> FALSE, timers |-> [delay |-> 0, sound |-> 0],
           wrote_delay |-> << >>, wrote_sound |-> << >>, drew_or_waited |-> FALSE,
           fetch_failures |-> 0]

\* the program bytes of a sequence of 16-bit instruction words, big-endian
ProgramBytes(words) ==
    [i \in 1..(2 * Len(words)) |->
        IF i % 2 = 1 THEN words[(i + 1) \div 2] \div 256 ELSE words[i \div 2] % 256]

\* ui::App::new: the State the application starts with
StateNew == [emulation |-> "Stopped", menu |-> "BackendSelection"]

InitWith(kinds, programs) ==
    /\ kind \in kinds
    /\ backend = BackendNew(kind, DefaultOptions(kind), DefaultDisplayOptions)
    /\ program \in {ProgramBytes(p) : p \in programs}
    /\ phase = "idle"
    /\ left = 0
    /\ result = NotCalled
    /\ last = Did("call")
    /\ tick_log = NoTick
    /\ state = StateNew

(* ---------------------------------------------------------------------- *)
(* load                                                                   *)
(* ---------------------------------------------------------------------- *)
\* mutant of chip8_load: the font is not copied
chip8_load_NoFont(b, bytes) ==
    [b EXCEPT !.memory = MemCopy(@, MEMORY_PADDING, bytes), !.loaded = TRUE]

\* chip8::Backend::load with font = None
chip8_load(b, bytes) ==
    [b EXCEPT !.memory = MemCopy(MemCopy(@, 0, SubSeq(BACKEND_FONT, 1, FONT_SIZE)),
                                 MEMORY_PADDING, bytes),
              !.loaded = TRUE]

\* super_chip::Backend::load with font = None: the classic load, then the hires font
super_chip_load(b, bytes) ==
    [chip8_load(b, bytes) EXCEPT !.memory =
        MemCopy(@, FONT_SIZE, SubSeq(BACKEND_FONT, FONT_SIZE + 1, FONT_SIZE + HIRES_FONT_SIZE))]

\* backend::Backend::load (mod.rs) with font = None: RAM is zeroed on a reload
legacy_load(b, bytes) ==
    [b EXCEPT !.memory = MemCopy(MemCopy(IF b.loaded THEN ZeroMemory ELSE @,
                                         0, SubSeq(BACKEND_FONT, 1, FONT_SIZE)),
                                 MEMORY_PADDING, bytes),
              !.loaded = TRUE]

\* load of the core in use
load(k, b, bytes) ==
    CASE k = "chip8" -> chip8_load(b, bytes)
      [] k = "super_chip" -> super_chip_load(b, bytes)
      [] k = "legacy" -> legacy_load(b, bytes)

Load ==
    /\ phase = "idle"
    /\ result.status # "Panic"
    /\ IF Len(program) > MEMORY_SIZE - MEMORY_PADDING
       THEN /\ result' = Failed([kind |-> "ProgramInvalid", instruction |-> NoInstruction])
            /\ UNCHANGED backend
       ELSE /\ backend' = load(kind, backend, program)
            /\ result' = Ok
    /\ last' = Did("call")
    /\ UNCHANGED <<kind, program, phase, left, tick_log, state>>

(* ---------------------------------------------------------------------- *)
(* reset                                                                  *)
(* ---------------------------------------------------------------------- *)
\* chip8::Backend::reset
chip8_reset(b) ==
    [b EXCEPT !.index = MEMORY_PADDING,
              !.registers = [address |-> 0,
                             general |-> [i \in 0..(REGISTER_COUNT - 1) |-> 0]],
              !.stack = << >>,
              !.timers = [delay |-> 0, sound |-> 0]]

\* mutant of super_chip_reset: program_exited survives the reset
super_chip_reset_KeepsExit(b) == chip8_reset(b)

\* super_chip::Backend::reset
super_chip_reset(b) == chip8_reset([b EXCEPT !.program_exited = FALSE])

\* backend::Backend::reset (mod.rs): timers.delay is zeroed twice, timers.sound never
legacy_reset(b) ==
    [b EXCEPT !.index = MEMORY_PADDING,
              !.registers = [address |-> 0,
                             general |-> [i \in 0..(REGISTER_COUNT - 1) |-> 0]],
              !.stack = << >>,
              !.timers.delay = 0]

\* Frontend::reset (frontend/mod.rs), the owner of the monolithic core's display
\* and keyboard: backend.reset(), display_buffer.clear(), keyboard.release()
frontend_reset(b) ==
    [legacy_reset(b) EXCEPT !.display_buffer = DisplayClear(@),
                            !.keypad.state = [i \in KeyIndex |-> "Released"]]

\* reset of the core in use
reset(k, b) ==
    CASE k = "chip8" -> chip8_reset(b)
      [] k = "super_chip" -> super_chip_reset(b)
      [] k = "legacy" -> frontend_reset(b)

Reset ==
    /\ phase = "idle"
    /\ result.status # "Panic"
    /\ backend' = reset(kind, backend)
    /\ last' = Did("reset")
    /\ tick_log' = NoTick
    /\ UNCHANGED <<kind, program, phase, left, result, state>>

(* ---------------------------------------------------------------------- *)
(* The host samples the keys between ticks                                *)
(* ---------------------------------------------------------------------- *)
KeypadUpdate ==
    /\ phase = "idle"
    /\ result.status # "Panic"
    /\ \E input \in SUBSET (0..(NumKeys - 1)) :
          backend' = [backend EXCEPT !.keypad = update(@, input)]
    /\ last' = Did("call")
    /\ UNCHANGED <<kind, program, phase, left, result, tick_log, state>>

(* ---------------------------------------------------------------------- *)
(* tick                                                                   *)
(* ---------------------------------------------------------------------- *)
\* mutant of tick_enter: only the delay timer is decremented
tick_enter_DelayOnly(b) ==
    [b EXCEPT !.timers = [delay |-> saturating_sub(@.delay, 1), sound |-> @.sound]]

\* mutant of tick_enter: the timers are not touched at the head of tick
tick_enter_NoDecrement(b) == b

\* the head of tick: the loaded check and the two saturating decrements
tick_enter(b) ==
    [b EXCEPT !.timers = [delay |-> saturating_sub(@.delay, 1),
                          sound |-> saturating_sub(@.sound, 1)]]

\* n is a u8 on chip8 and SUPER-CHIP and a NonZeroU16 on the monolithic core
TickArguments == IF kind = "legacy" THEN 1..MaxN ELSE 0..MaxN

\* mutant of TickBegin: the loaded check is missing
TickBegin_Unchecked ==
    /\ phase = "idle"
    /\ result.status # "Panic"
    /\ \E n \in TickArguments :
          /\ backend' = tick_enter(backend)
          /\ phase' = "loop"
          /\ left' = n
          /\ tick_log' = [NoTick EXCEPT !.entered = TRUE, !.timers = backend.timers,
                                            !.fetch_failures = tick_log.fetch_failures]
          /\ result' = NotCalled
    /\ last' = Did("call")
    /\ UNCHANGED <<kind, program, state>>

\* Backend::tick up to the loop: the loaded check and the timers
tick_called ==
    /\ phase = "idle"
    /\ result.status # "Panic"
    /\ \E n \in TickArguments :
          IF ~backend.loaded
          THEN /\ result' = Failed([kind |-> "ProgramNotLoaded",
                                    instruction |-> NoInstruction])
               /\ tick_log' = [NoTick EXCEPT !.fetch_failures = tick_log.fetch_failures]
               /\ UNCHANGED <<backend, phase, left>>
          ELSE /\ backend' = tick_enter(backend)
               /\ phase' = "loop"
               /\ left' = n
               /\ tick_log' = [NoTick EXCEPT !.entered = TRUE, !.timers = backend.timers,
                                            !.fetch_failures = tick_log.fetch_failures]
               /\ result' = NotCalled
    /\ last' = Did("call")
    /\ UNCHANGED <<kind, program>>

TickBegin == tick_called /\ UNCHANGED state

\* the instruction the next iteration of the loop fetches
Fetched(b) == InstructionNew(MemRead(b.memory, b.index), MemRead(b.memory, b.index + 1))

\* execute of the core in use, after the fetch has advanced the PC
Execute(k, b, at, w, random_byte) ==
    CASE k = "chip8" ->
           chip8_execute(b, TRUE, DISPLAY_BUFFER_WIDTH(k), DISPLAY_BUFFER_HEIGHT(k),
                         at, w, random_byte)
      [] k = "super_chip" ->
           super_chip_execute(b, DISPLAY_BUFFER_WIDTH(k), DISPLAY_BUFFER_HEIGHT(k),
                              at, w, random_byte)
      [] k = "legacy" ->
           legacy_execute(b, DISPLAY_BUFFER_WIDTH(k), DISPLAY_BUFFER_HEIGHT(k),
                          at, w, random_byte)

\* mutant of FetchOverflows: the program counter is taken modulo the RAM size
FetchOverflows_Masked(b) == (b.index % MEMORY_SIZE) + 1 >= MEMORY_SIZE

\* mutant of FetchOverflows: the bounds check is off by one
FetchOverflows_OffByOne(b) == b.index + 1 > MEMORY_SIZE

\* the bounds check at the head of an iteration
FetchOverflows(b) == b.index + 1 >= MEMORY_SIZE

\* one iteration of the loop of tick
tick_iteration ==
    /\ phase = "loop"
    /\ left > 0
    /\ IF FetchOverflows(backend)
       THEN /\ result' = Failed([kind |-> "MemoryOverflow",
                                 instruction |-> <<backend.index, << >> >>])
            /\ phase' = "idle"
            /\ left' = 0
            /\ last' = Did("overflow")
            /\ tick_log' = [tick_log EXCEPT
                  !.fetch_failures = Min(@ + 1, MaxFailures)]
            /\ UNCHANGED backend
       ELSE LET w == Fetched(backend)
                at == backend.index
                advanced == [backend EXCEPT !.index = @ + INSTRUCTION_SIZE]
            IN \E random_byte \in (IF operator_code(w) = 12 THEN Byte ELSE {0}) :
                 \E r \in {Execute(kind, advanced, at, w, random_byte)} :
                    /\ backend' = r.m
                    /\ result' = CASE r.flow = "Err" -> Failed(r.error)
                                   [] r.flow = "Panic" -> Panicked
                                   [] r.flow = "Break" -> Ok
                                   [] OTHER -> result
                    /\ phase' = IF r.flow = "Continue" THEN "loop" ELSE "idle"
                    /\ left' = IF r.flow = "Continue" THEN left - 1 ELSE 0
                    /\ last' = [action |-> "step", at |-> at, instruction |-> w,
                                before |-> Snapshot(backend)]
                    /\ tick_log' = [tick_log EXCEPT
                          !.wrote_delay =
                              IF operator_code(w) = 15 /\ operand_nn(w) = \h15
                              THEN << backend.registers.general[operand_x(w)] >> ELSE @,
                          !.wrote_sound =
                              IF operator_code(w) = 15 /\ operand_nn(w) = \h18
                              THEN << backend.registers.general[operand_x(w)] >> ELSE @,
                          !.drew_or_waited = @ \/ operator_code(w) = 13
                                               \/ (operator_code(w) = 15 /\ operand_nn(w) = \h0A)]
    /\ UNCHANGED <<kind, program>>

Step == tick_iteration /\ UNCHANGED state

\* the loop has made its n iterations: tick returns Ok(())
tick_returned ==
    /\ phase = "loop"
    /\ left = 0
    /\ phase' = "idle"
    /\ result' = Ok
    /\ last' = Did("call")
    /\ UNCHANGED <<kind, backend, program, left, tick_log>>

TickReturn == tick_returned /\ UNCHANGED state

Next == Load \/ Reset \/ KeypadUpdate \/ TickBegin \/ Step \/ TickReturn

(* ---------------------------------------------------------------------- *)
(* Programs the host loads                                                *)
(* ---------------------------------------------------------------------- *)
\* control flow: jumps, calls, returns, skips
FlowPrograms ==
    { << \h1200 >>,                                  \* JP 0x200
      << \h1203, \h0012, \h0300 >>,                  \* JP 0x203; at 0x203: JP 0x203
      << \h2200, \h1202 >>,                          \* CALL 0x200 until the stack is full
      << \h00EE, \h1202 >>,                          \* RET on an empty stack
      << \h2204, \h1202, \h00EE >>,                  \* CALL 0x204; JP 0x202; RET
      << \h2206, \h1202, \h1204, \h220A, \h00EE, \h00EE >>,  \* nested calls
      << \h60FF, \hBFFF >>,                          \* LD V0, 0xFF; JP V0 + 0xFFF
      << \h1FFE >>,                                  \* JP 0xFFE: runs off the end of RAM
      << \h3000, \h1200, \h1204 >> }                 \* SE V0, 0: skip taken

\* timers: FX15, FX18, FX07
TimerPrograms ==
    { << \h6003, \hF015, \hF018, \hF107, \h1206 >>,  \* set both timers, then poll DT
      << \h6002, \hF015, \hF107, \hF115, \h1204 >>,  \* poll DT and write it back
      << \h6002, \hF018, \h1204 >> }                 \* set ST only

\* instructions that end the frame: DXYN, FX0A
FramePrograms ==
    { << \hD001, \h6101, \h1200 >>,                  \* DRW V0, V0, 1; LD V1, 1; JP 0x200
      << \hF30A, \h6101, \h1200 >>,                  \* LD V3, K; LD V1, 1; JP 0x200
      << \h6002, \hF015, \hF30A, \hF107, \h1204 >> } \* wait for a key while DT runs

Programs == FlowPrograms \cup TimerPrograms \cup FramePrograms

Init == InitWith(Kinds, Programs)

Spec == Init /\ [][Next]_vars

(* ---------------------------------------------------------------------- *)
(* Arithmetic programs: two register loads, then one 8XY5 or 8XY7        *)
(* ---------------------------------------------------------------------- *)
\* the registers the programs name: two ordinary ones and the flag register
AluRegisters == {0, 1, 15}

\* the operand values: the least, an inner one, the greatest
AluValues == {0, 1, 255}

\* LD Vx, a; LD Vy, b; SUB Vx, Vy or SUBN Vx, Vy; JP 0x206
AluPrograms ==
    { << 6 * 4096 + x * 256 + a, 6 * 4096 + y * 256 + b,
         8 * 4096 + x * 256 + y * 16 + n, \h1206 >> :
        x \in AluRegisters, y \in AluRegisters,
        a \in AluValues, b \in AluValues, n \in {5, 7} }

InitAlu == InitWith(Kinds, AluPrograms)

NextAlu == Load \/ TickBegin \/ Step \/ TickReturn

SpecAlu == InitAlu /\ [][NextAlu]_vars

\* LD Vx, a; LD Vy, b; ADD Vx, Vy or SHR Vx, Vy or SHL Vx, Vy; JP 0x206
ArithPrograms ==
    { << 6 * 4096 + x * 256 + a, 6 * 4096 + y * 256 + b,
         8 * 4096 + x * 256 + y * 16 + n, \h1206 >> :
        x \in AluRegisters, y \in AluRegisters,
        a \in AluValues, b \in AluValues, n \in {4, 6, 14} }

InitArith == InitWith(Kinds, ArithPrograms)

SpecArith == InitArith /\ [][NextAlu]_vars

(* ---------------------------------------------------------------------- *)
(* Program files of every size: the host picks one, then loads it         *)
(* ---------------------------------------------------------------------- *)
\* JP 0x200 at the start, zeros, and 0xFF as the last of len bytes
FileOfLength(len) ==
    [i \in 1..len |-> CASE i = 1 -> \h12 [] i = len -> \hFF [] OTHER -> 0]

\* a short program, one that fills RAM to its last byte, one a byte too long
LoadPrograms ==
    { << \h12, \h00, \h12, \h00 >>,
      FileOfLength(MEMORY_SIZE - MEMORY_PADDING),
      FileOfLength(MEMORY_SIZE - MEMORY_PADDING + 1) }

\* the host selects another program file (ui: program_path)
PickProgram ==
    /\ phase = "idle"
    /\ result.status # "Panic"
    /\ program' \in LoadPrograms \ {program}
    /\ last' = Did("call")
    /\ UNCHANGED <<kind, backend, phase, left, result, tick_log, state>>

InitLoad ==
    /\ kind \in Kinds
    /\ backend = BackendNew(kind, DefaultOptions(kind), DefaultDisplayOptions)
    /\ program \in LoadPrograms
    /\ phase = "idle"
    /\ left = 0
    /\ result = NotCalled
    /\ last = Did("call")
    /\ tick_log = NoTick
    /\ state = StateNew

NextLoad == PickProgram \/ Load \/ Reset \/ TickBegin \/ Step \/ TickReturn

SpecLoad == InitLoad /\ [][NextLoad]_vars

(* ---------------------------------------------------------------------- *)
(* Vocabulary of the properties                                           *)
(* ---------------------------------------------------------------------- *)
V == backend.registers.general

\* the last action was an iteration of the loop that fetched and executed last.instruction
Stepped == last.action = "step"

\* ... and execute returned Ok
SteppedOk == Stepped /\ result.status \notin {"Err", "Panic"}

LastIs(op) == Stepped /\ operator_code(last.instruction) = op

LastIsF(nn) == LastIs(15) /\ operand_nn(last.instruction) = nn

LastIsRET == LastIs(0) /\ operand_nnn(last.instruction) = \h0EE

LastX == operand_x(last.instruction)

LastY == operand_y(last.instruction)

(* ---------------------------------------------------------------------- *)
(* C1  PC after an executed instruction                                   *)
(* ---------------------------------------------------------------------- *)
\* C1 as stated: on the classic core, after every instruction that executed
\* without error the PC is even and lies in [0, 4096).
C1_PCEvenInRam ==
    (kind = "chip8" /\ SteppedOk) =>
        (backend.index % 2 = 0 /\ backend.index \in 0..(MEMORY_SIZE - 1))

\* C1 (amended): on every core the PC always lies in [0, 4095 + 255] -- it may
\* be odd and may pass the end of RAM -- but an instruction is only ever fetched
\* at the PC, and only when PC + 1 < 4096.
C1_PCBounded ==
    /\ backend.index \in 0..(MEMORY_SIZE - 1 + 255)
    /\ Stepped => last.at + 1 < MEMORY_SIZE /\ last.at = last.before.index

\* an instruction has executed at the last fetchable address and left the PC past RAM
C1_Witness ==
    SteppedOk /\ last.at = MEMORY_SIZE - 2 /\ backend.index = MEMORY_SIZE

(* ---------------------------------------------------------------------- *)
(* C2, C3, C9  the call stack                                             *)
(* ---------------------------------------------------------------------- *)
\* C2: in every reachable state the stack holds at most STACK_SIZE return
\* addresses (16 on chip8 and SUPER-CHIP, 12 on the monolithic core).
C2_StackBounded == Len(backend.stack) <= STACK_SIZE(kind)

\* a CALL has just been refused on a full stack
C2_Witness ==
    /\ LastIs(2)
    /\ result.status = "Err"
    /\ Len(backend.stack) = STACK_SIZE(kind)

\* C3: a 2NNN on a full stack fails with StackOverflow and a 00EE on an empty
\* stack fails with StackUnderflow; either leaves the stack as it was and the PC
\* at the address after the instruction, neither at the call target nor at a
\* popped value.
C3_OverflowUnderflowAreErrors ==
    /\ (LastIs(2) /\ Len(last.before.stack) = STACK_SIZE(kind)) =>
          /\ result = Failed(BackendError("StackOverflow", last.at, last.instruction))
          /\ backend.stack = last.before.stack
          /\ backend.index = last.at + INSTRUCTION_SIZE
    /\ (LastIsRET /\ Len(last.before.stack) = 0) =>
          /\ result = Failed(BackendError("StackUnderflow", last.at, last.instruction))
          /\ backend.stack = << >>
          /\ backend.index = last.at + INSTRUCTION_SIZE

\* a RET has just been refused on an empty stack, on the classic core
C3_Witness ==
    /\ kind = "chip8"
    /\ LastIsRET
    /\ last.before.stack = << >>
    /\ result.error.kind = "StackUnderflow"

\* C9: a 2NNN at address a that finds room pushes a + 2 on top of the stack and
\* jumps to NNN; a 00EE on a non-empty stack pops the top entry into the PC and
\* leaves the entries below untouched.  So the 00EE that matches a 2NNN at a
\* returns to a + 2 with the stack as it was before the 2NNN.
C9_CallThenReturn ==
    /\ (LastIs(2) /\ SteppedOk) =>
          /\ backend.stack = Append(last.before.stack, last.at + INSTRUCTION_SIZE)
          /\ backend.index = operand_nnn(last.instruction)
    /\ (LastIsRET /\ SteppedOk) =>
          /\ backend.index = last.before.stack[Len(last.before.stack)]
          /\ backend.stack = SubSeq(last.before.stack, 1, Len(last.before.stack) - 1)
          /\ operator_code(InstructionNew(MemRead(backend.memory, backend.index - 2),
                                          MemRead(backend.memory, backend.index - 1))) = 2

\* the inner of two nested calls has returned to the instruction after its CALL
C9_Witness ==
    /\ LastIsRET
    /\ SteppedOk
    /\ Len(backend.stack) = 1
    /\ backend.index = \h208
    /\ operand_nnn(InstructionNew(MemRead(backend.memory, \h206),
                                  MemRead(backend.memory, \h207))) = last.at

(* ---------------------------------------------------------------------- *)
(* C4, C5  timers                                                         *)
(* ---------------------------------------------------------------------- *)
\* a tick has returned (Ok or Err) and no reset has followed
TickDone == tick_log.entered /\ phase = "idle"

\* C4 as stated: after one tick(n) on a loaded program each timer equals
\* max(prev - 1, 0), prev being its value before the tick.
C4_TimersDecrementedAfterTick ==
    TickDone =>
        /\ backend.timers.delay = Max(tick_log.timers.delay - 1, 0)
        /\ backend.timers.sound = Max(tick_log.timers.sound - 1, 0)

\* C4 (amended): from the entry of tick(n) on a loaded program until the next
\* tick or reset, a timer that no FX15 (delay) or FX18 (sound) of that tick has
\* written equals max(prev - 1, 0), for every n and on every core.
C4_TimersDecrementedOnce ==
    tick_log.entered =>
        /\ tick_log.wrote_delay = << >> =>
              backend.timers.delay = Max(tick_log.timers.delay - 1, 0)
        /\ tick_log.wrote_sound = << >> =>
              backend.timers.sound = Max(tick_log.timers.sound - 1, 0)

\* tick(0) has been entered with both timers running: the loop has nothing to do
C4_Witness ==
    /\ phase = "loop"
    /\ left = 0
    /\ last.action = "call"
    /\ tick_log.timers.delay >= 2
    /\ tick_log.timers.sound >= 2
    /\ backend.timers.delay = tick_log.timers.delay - 1
    /\ backend.timers.sound = tick_log.timers.sound - 1

\* C5: the decrement precedes the first fetch: an FX07 executed in a tick that
\* began with delay_timer = d, with no FX15 before it in that tick, loads
\* max(d - 1, 0); and a value an FX15 or FX18 wrote stays as written until the
\* next tick begins.
C5_DecrementBeforeFirstFetch ==
    /\ (LastIsF(\h07) /\ SteppedOk /\ tick_log.wrote_delay = << >>) =>
          V[LastX] = Max(tick_log.timers.delay - 1, 0)
    /\ (tick_log.entered /\ tick_log.wrote_delay # << >>) =>
          backend.timers.delay = tick_log.wrote_delay[1]
    /\ (tick_log.entered /\ tick_log.wrote_sound # << >>) =>
          backend.timers.sound = tick_log.wrote_sound[1]

\* FX07 has read a running delay timer in a tick that did not write it
C5_Witness ==
    /\ LastIsF(\h07)
    /\ tick_log.wrote_delay = << >>
    /\ tick_log.timers.delay = 2
    /\ V[LastX] = 1

(* ---------------------------------------------------------------------- *)
(* C6, C7  instructions that end the frame                                *)
(* ---------------------------------------------------------------------- *)
\* C6: on the classic core and on SUPER-CHIP, once a DXYN or an FX0A has
\* executed inside tick(n) the loop of that tick is over: no further instruction
\* is fetched in it.
C6_DrawAndWaitEndTheTick ==
    (kind \in {"chip8", "super_chip"} /\ tick_log.drew_or_waited) => phase = "idle"

\* the keys released since the previous snapshot
JustReleased ==
    {k \in KeyIndex : backend.keypad.last_state[k] = "Held"
                      /\ backend.keypad.state[k] = "Released"}

\* C7: FX0A at address a, on the cores that read a KeypadState (classic and
\* SUPER-CHIP).  With no key released since the previous snapshot the
\* tick ends with PC = a and the registers unchanged, so that the same FX0A is
\* fetched next; with some key just released V[x] is the lowest such key and
\* PC = a + 2.  The tick ends in both cases.
C7_WaitForKey ==
    (kind \in {"chip8", "super_chip"} /\ LastIsF(\h0A)) =>
        /\ phase = "idle"
        /\ result = Ok
        /\ JustReleased = {} =>
              /\ backend.index = last.at
              /\ backend.registers = last.before.registers
              /\ Fetched(backend) = last.instruction
        /\ JustReleased # {} =>
              /\ V[LastX] \in JustReleased
              /\ \A k \in JustReleased : V[LastX] <= k
              /\ \A i \in (0..(REGISTER_COUNT - 1)) \ {LastX} :
                    V[i] = last.before.registers.general[i]
              /\ backend.index = last.at + INSTRUCTION_SIZE

\* FX0A has taken key 1 while key 0 stayed held
C7_Witness ==
    /\ kind = "chip8"
    /\ LastIsF(\h0A)
    /\ JustReleased = {1}
    /\ pressed(backend.keypad, 0)
    /\ V[LastX] = 1
    /\ last.before.registers.general[LastX] = 0

BeforeVx == last.before.registers.general[LastX]

BeforeVy == last.before.registers.general[LastY]

LastIsSub == LastIs(8) /\ operand_n(last.instruction) \in {5, 7} /\ SteppedOk

\* C10: after 8XY5 V[F] is 1 exactly when V[x] >= V[y] held before the
\* instruction, and V[x] (when x is not F) is (V[x] - V[y]) mod 256; after 8XY7
\* the same with the operands exchanged. The flag is the last write, and
\* equal operands give V[F] = 1 and a result of 0.
C10_SubtractFlag ==
    LastIsSub =>
        LET minuend == IF operand_n(last.instruction) = 5 THEN BeforeVx ELSE BeforeVy
            subtrahend == IF operand_n(last.instruction) = 5 THEN BeforeVy ELSE BeforeVx
        IN /\ V[15] = (IF minuend >= subtrahend THEN 1 ELSE 0)
           /\ LastX # 15 => V[LastX] = (minuend - subtrahend) % 256

\* an 8XY5 or 8XY7 has executed on equal operands
C10_EqualOperands == LastIsSub /\ BeforeVx = BeforeVy

(* ---------------------------------------------------------------------- *)
(* C11  8XY4                                                              *)
(* ---------------------------------------------------------------------- *)
LastIsAdd == LastIs(8) /\ operand_n(last.instruction) = 4 /\ SteppedOk

\* C11: after 8XY4 V[F] is 1 exactly when V[x] + V[y], taken before the
\* instruction, exceeds 255, and V[x] (when x is not F) is that sum mod 256;
\* with x = F the register holds the carry, not the sum.
C11_AddCarry ==
    LastIsAdd =>
        /\ V[15] = (IF BeforeVx + BeforeVy > 255 THEN 1 ELSE 0)
        /\ LastX # 15 => V[LastX] = (BeforeVx + BeforeVy) % 256

\* an 8FY4 on the classic core whose sum mod 256 differs from its carry
C11_Witness ==
    /\ kind = "chip8"
    /\ LastIsAdd
    /\ LastX = 15
    /\ BeforeVx + BeforeVy = 255
    /\ V[15] = 0

(* ---------------------------------------------------------------------- *)
(* C12  8XY6 and 8XYE                                                     *)
(* ---------------------------------------------------------------------- *)
LastIsShift == LastIs(8) /\ operand_n(last.instruction) \in {6, 14} /\ SteppedOk

\* flag and result of the last shift are both taken from the value v
ShiftOf(v) ==
    /\ V[15] = (IF operand_n(last.instruction) = 6 THEN v % 2 ELSE v \div 128)
    /\ LastX # 15 =>
          V[LastX] = (IF operand_n(last.instruction) = 6 THEN v \div 2 ELSE (v * 2) % 256)

\* C12: after 8XY6 / 8XYE the flag is the bit shifted out of the source value
\* and V[x] is that same value shifted: the source is V[y] when copy_and_shift
\* is on and V[x] when it is off (the monolithic core has no such option:
\* there either source is accepted, as long as flag and result share it).
C12_ShiftSameSource ==
    LastIsShift =>
        IF kind = "legacy" THEN ShiftOf(BeforeVx) \/ ShiftOf(BeforeVy)
        ELSE ShiftOf(IF backend.options.copy_and_shift THEN BeforeVy ELSE BeforeVx)

\* a shift has executed on operands whose shifted-out bits differ
C12_Witness ==
    /\ LastIsShift
    /\ operand_n(last.instruction) = 6
    /\ LastX # LastY
    /\ BeforeVx = 1
    /\ BeforeVy = 0

(* ---------------------------------------------------------------------- *)
(* C13  tick before load                                                  *)
(* ---------------------------------------------------------------------- *)
\* C13: a tick on a backend that is not loaded returns ProgramNotLoaded, does
\* not enter its loop and leaves every field of the backend (timers, PC,
\* registers, stack, memory, display) as it was.
C13_TickNotLoaded ==
    [][(TickBegin /\ ~backend.loaded) =>
          /\ result' = Failed([kind |-> "ProgramNotLoaded", instruction |-> NoInstruction])
          /\ backend' = backend
          /\ phase' = "idle"]_vars

\* a tick has been refused on a backend that was never loaded
C13_Witness ==
    /\ ~backend.loaded
    /\ result.error.kind = "ProgramNotLoaded"
    /\ backend.memory = ZeroMemory

ResetState(b) ==
    /\ b.index = MEMORY_PADDING
    /\ \A i \in 0..(REGISTER_COUNT - 1) : b.registers.general[i] = 0
    /\ b.registers.address = 0
    /\ b.stack = << >>

\* C15: every reset, from any reachable state, leaves PC = 512, V and I zero, the
\* stack empty, both timers 0 and every display pixel off, and keeps loaded and
\* the bytes in RAM.
C15_Reset ==
    [][Reset => /\ ResetState(backend')
                /\ backend'.timers = [delay |-> 0, sound |-> 0]
                /\ backend'.display_buffer.buffer = {}
                /\ backend'.loaded = backend.loaded
                /\ backend'.memory = backend.memory]_vars

\* the classic core has been reset after a draw and its display is still lit
C15_Witness ==
    /\ last.action = "reset"
    /\ kind = "chip8"
    /\ backend.loaded
    /\ ResetState(backend)
    /\ backend.display_buffer.buffer # {}

(* ---------------------------------------------------------------------- *)
(* The display buffer on its own: the cores' calls of its methods, with   *)
(* the arguments the instructions can pass, on the display as it stands   *)
(* ---------------------------------------------------------------------- *)
\* the number of display calls made one after another
MaxCalls == 3

DisplayKinds == {"chip8", "super_chip"}

\* sprites: a frame of three rows, a blank row, and on the SUPER-CHIP in high
\* resolution the 32 bytes of a 16 x 16 frame
Frame16 == [i \in 1..32 |-> IF i \in {1, 2, 31, 32} THEN \hFF
                            ELSE IF i % 2 = 1 THEN \h80 ELSE \h01]

DrawSprites(k, half) ==
    { << \hFF, \h81, \hFF >>, << \h00 >> }
        \cup (IF k = "super_chip" /\ ~half THEN {Frame16} ELSE {})

\* V[x], V[y]: the bottom right corner, and a point past both edges
DrawCoordinates(k, half) ==
    LET w == DISPLAY_BUFFER_WIDTH(k) \div (IF half THEN 2 ELSE 1)
        h == DISPLAY_BUFFER_HEIGHT(k) \div (IF half THEN 2 ELSE 1)
    IN { <<w - 4, h - 2>>, <<w + 1, h + 1>> }

\* the record of one display call: its arguments, the display it found, what it
\* returned, and the call before it
NoCall == [op |-> "none"]

DisplayCall(op, arguments, before, returned, calls, previous) ==
    [action |-> "display", at |-> 0, instruction |-> 0, before |-> NoSnapshot,
     call |-> [op |-> op, arguments |-> arguments, before |-> before,
               returned |-> returned],
     calls |-> calls,
     previous |-> previous]

Started == DisplayCall("none", << >>, DisplayBufferNew(DefaultDisplayOptions), 0, 0, NoCall)

\* DXYN reaches DisplayBuffer::draw
DisplayDraw ==
    /\ last.calls < MaxCalls
    /\ \E coordinates \in DrawCoordinates(kind, backend.display_buffer.half_resolution),
          sprite \in DrawSprites(kind, backend.display_buffer.half_resolution) :
          \E d \in {draw(backend.display_buffer, coordinates, sprite,
                          DISPLAY_BUFFER_WIDTH(kind), DISPLAY_BUFFER_HEIGHT(kind))} :
             /\ backend' = [backend EXCEPT !.display_buffer = d.display_buffer]
             /\ result' = IF d.panic THEN Panicked ELSE Ok
             /\ last' = DisplayCall("draw", <<coordinates, sprite>>,
                                    backend.display_buffer, d.colliding_rows,
                                    last.calls + 1, last.call)
    /\ result.status # "Panic"
    /\ UNCHANGED <<kind, program, phase, left, tick_log, state>>

\* 00FE, 00FF on SUPER-CHIP: the resolution changes, the pixels stay
DisplayResolution ==
    /\ kind = "super_chip"
    /\ last.calls < MaxCalls
    /\ result.status # "Panic"
    /\ backend' = [backend EXCEPT !.display_buffer.half_resolution = ~@]
    /\ last' = DisplayCall("resolution", << >>, backend.display_buffer, 0,
                           last.calls + 1, last.call)
    /\ UNCHANGED <<kind, program, phase, left, result, tick_log, state>>

\* the host's options: clip_sprites and half_pixel_scrolling as configured
InitDisplay ==
    /\ kind \in DisplayKinds
    /\ \E clip \in BOOLEAN, half_pixel \in BOOLEAN :
          backend = BackendNew(kind, DefaultOptions(kind),
                               [clip_sprites |-> clip, half_pixel_scrolling |-> half_pixel])
    /\ program = << >>
    /\ phase = "idle"
    /\ left = 0
    /\ result = NotCalled
    /\ last = Started
    /\ tick_log = NoTick
    /\ state = StateNew

\* the scroll distances asked for: one cell, the four of 00FB and 00FC
ScrollAmounts == {1, 4}

\* one of the four scroll methods, by name
Scroll(direction, db, n, W, H) ==
    CASE direction = "down" -> scroll_down(db, n, W, H)
      [] direction = "left" -> scroll_left(db, n, W, H)
      [] direction = "right" -> scroll_right(db, n, W, H)
      [] direction = "up" -> scroll_up(db, n, W, H)

\* a call of scroll_down, scroll_left, scroll_right or scroll_up
DisplayScroll ==
    /\ last.calls < MaxCalls
    /\ result.status # "Panic"
    /\ \E direction \in {"down", "left", "right", "up"}, n \in ScrollAmounts :
          /\ backend' = [backend EXCEPT !.display_buffer =
                            Scroll(direction, @, n, DISPLAY_BUFFER_WIDTH(kind),
                                   DISPLAY_BUFFER_HEIGHT(kind))]
          /\ last' = DisplayCall("scroll", <<direction, n>>, backend.display_buffer,
                                 0, last.calls + 1, last.call)
    /\ UNCHANGED <<kind, program, phase, left, result, tick_log, state>>

NextDisplay == DisplayDraw \/ DisplayResolution \/ DisplayScroll

SpecDisplay == InitDisplay /\ [][NextDisplay]_vars

(* ---------------------------------------------------------------------- *)
(* C16: drawing twice                                                     *)
(* ---------------------------------------------------------------------- *)
\* the last two display calls were draws of one sprite at one position
DrawnTwice ==
    /\ last.action = "display"
    /\ last.call.op = "draw"
    /\ last.previous.op = "draw"
    /\ last.previous.arguments = last.call.arguments

\* C16 as stated: for every display state, sprite and position, the second of two
\* equal draws restores the display and reports at least one colliding row.
C16_DrawTwice ==
    DrawnTwice => /\ backend.display_buffer.buffer = last.previous.before.buffer
                  /\ last.call.returned >= 1

\* the pixels a draw turned on
TurnedOn(call, after) == after.buffer \ call.before.buffer

\* C16 amended: the second of two equal draws restores the display, and reports
\* at least one colliding row when the first draw turned a pixel on.
C16_DrawTwiceRestores ==
    DrawnTwice => /\ backend.display_buffer.buffer = last.previous.before.buffer
                  /\ TurnedOn(last.previous, last.call.before) # {} =>
                         last.call.returned >= 1

\* a frame was drawn twice over a display that another draw had left lit
C16_Witness ==
    /\ DrawnTwice
    /\ last.previous.before.buffer # {}
    /\ TurnedOn(last.previous, last.call.before) # {}
    /\ backend.display_buffer.buffer = last.previous.before.buffer
    /\ last.call.returned >= 1

(* ---------------------------------------------------------------------- *)
(* Sprite programs: a position, then the glyph at I = 0 drawn twice       *)
(* ---------------------------------------------------------------------- *)
\* V0, V1: the origin, the last columns and rows, a point past both edges
SpriteX == {0, 60, 66}

SpriteY == {0, 30, 33}

\* LD V0, x; LD V1, y; DRW V0, V1, n; DRW V0, V1, n; JP 0x208
SpritePrograms ==
    { << 6 * 4096 + x, 6 * 4096 + 256 + y, \hD010 + n, \hD010 + n, \h1208 >> :
        x \in SpriteX, y \in SpriteY, n \in {1, 5} }

InitSprite ==
    /\ kind \in DisplayKinds
    /\ \E clip \in BOOLEAN :
          backend = BackendNew(kind, DefaultOptions(kind),
                               [clip_sprites |-> clip, half_pixel_scrolling |-> FALSE])
    /\ program \in {ProgramBytes(p) : p \in SpritePrograms}
    /\ phase = "idle"
    /\ left = 0
    /\ result = NotCalled
    /\ last = Did("call")
    /\ tick_log = NoTick
    /\ state = StateNew

SpecSprite == InitSprite /\ [][NextAlu]_vars

(* ---------------------------------------------------------------------- *)
(* C17: the collision flag of the classic DXYN                            *)
(* ---------------------------------------------------------------------- *)
\* the pixels the last instruction turned off
TurnedOff == last.before.buffer \ backend.display_buffer.buffer

\* C17: on the classic core, after DXYN V[F] is 1 if the draw turned off at least
\* one pixel that was on before it and 0 otherwise, at every position and with
\* clip_sprites on or off.
C17_CollisionFlag ==
    (kind = "chip8" /\ LastIs(13) /\ SteppedOk) =>
        V[15] = (IF TurnedOff # {} THEN 1 ELSE 0)

\* a clipped draw on the classic core set the flag without turning a pixel off
C17_Witness ==
    /\ kind = "chip8"
    /\ LastIs(13)
    /\ SteppedOk
    /\ backend.display_buffer.options.clip_sprites
    /\ last.before.buffer = {}
    /\ V[15] = 1

(* ---------------------------------------------------------------------- *)
(* C18: where a sprite lands                                              *)
(* ---------------------------------------------------------------------- *)
\* the lit bits <<r, b>> of a sprite: row r, column b, both from 0
LitBits(sprite, wide) ==
    IF wide
    THEN {rb \in (0..15) \X (0..15) :
             Bit(InstructionNew(sprite[2 * rb[1] + 1], sprite[2 * rb[1] + 2]),
                 15 - rb[2]) = 1}
    ELSE {rb \in (0..(Len(sprite) - 1)) \X (0..7) :
             Bit(sprite[rb[1] + 1], 7 - rb[2]) = 1}

\* the cells <<row, column>> a draw is to toggle: each lit bit, scaled, placed
\* from the start coordinates reduced modulo (W, H); with clip, the cells past
\* the right or the bottom edge are left out, without clip they wrap
DrawTargets(db, coordinates, sprite, W, H) ==
    LET scaling_factor == IF db.half_resolution THEN 2 ELSE 1
        cx0 == (coordinates[1] * scaling_factor) % W
        cy0 == (coordinates[2] * scaling_factor) % H
        placed == {<<cy0 + rb[1] * scaling_factor + d[1],
                     cx0 + rb[2] * scaling_factor + d[2]>> :
                      rb \in LitBits(sprite, Len(sprite) = 32 /\ ~db.half_resolution),
                      d \in (0..(scaling_factor - 1)) \X (0..(scaling_factor - 1))}
    IN IF db.options.clip_sprites
       THEN {c \in placed : c[1] < H /\ c[2] < W}
       ELSE {<<c[1] % H, c[2] % W>> : c \in placed}

SymmetricDifference(a, b) == (a \ b) \cup (b \ a)

LastDrew == last.action = "display" /\ last.call.op = "draw"

LastTargets ==
    DrawTargets(last.call.before, last.call.arguments[1], last.call.arguments[2],
                DISPLAY_BUFFER_WIDTH(kind), DISPLAY_BUFFER_HEIGHT(kind))

\* C18: a draw toggles exactly the cells of the sprite placed from the start
\* coordinates reduced modulo (W, H): with clip_sprites on the cells past the
\* right or bottom edge are dropped and nothing changes on the opposite edge,
\* with clip_sprites off those cells wrap to column cx mod W and row cy mod H.
C18_DrawPlacement ==
    LastDrew =>
        /\ result.status = "Ok"
        /\ backend.display_buffer.buffer =
              SymmetricDifference(last.call.before.buffer, LastTargets)

\* a frame drawn at the bottom right corner with clip_sprites on lost the cells
\* past both edges, and column 0 and row 0 are as they were
C18_Witness ==
    /\ LastDrew
    /\ backend.display_buffer.options.clip_sprites
    /\ Len(last.call.arguments[2]) = 3
    /\ last.call.arguments[1][1] % 64 = 60
    /\ Cardinality(LastTargets) < 20
    /\ LastTargets # {}
    /\ \A c \in SymmetricDifference(last.call.before.buffer,
                                     backend.display_buffer.buffer) :
          c[1] # 0 /\ c[2] # 0

(* ---------------------------------------------------------------------- *)
(* C19: scrolling                                                         *)
(* ---------------------------------------------------------------------- *)
\* the pixels of buffer moved d cells in a direction; those pushed past the
\* leading edge are gone and nothing is lit on the trailing edge
Shifted(buffer, direction, d, W, H) ==
    CASE direction = "down" -> {<<c[1] + d, c[2]>> : c \in {b \in buffer : b[1] + d < H}}
      [] direction = "up" -> {<<c[1] - d, c[2]>> : c \in {b \in buffer : b[1] >= d}}
      [] direction = "right" -> {<<c[1], c[2] + d>> : c \in {b \in buffer : b[2] + d < W}}
      [] direction = "left" -> {<<c[1], c[2] - d>> : c \in {b \in buffer : b[2] >= d}}

LastScrolled ==
    /\ last.action = "display"
    /\ last.call.op = "scroll"
    /\ last.call.arguments[2] >= 1

LastShifted ==
    Shifted(last.call.before.buffer, last.call.arguments[1],
            ScrollDistance(last.call.before, last.call.arguments[2]),
            DISPLAY_BUFFER_WIDTH(kind), DISPLAY_BUFFER_HEIGHT(kind))

\* C19: a scroll by n >= 1 in any of the four directions moves every pixel d
\* cells (d = 2n in half resolution without half_pixel_scrolling, else n),
\* leaves the d vacated rows or columns off, drops the pixels pushed off the
\* display, and sets dirty.
C19_Scroll ==
    LastScrolled => /\ backend.display_buffer.buffer = LastShifted
                    /\ backend.display_buffer.dirty

\* a scroll to the left or upwards left a pixel lit on the vacated edge
C19_Witness ==
    /\ LastScrolled
    /\ last.call.arguments[1] \in {"left", "up"}
    /\ LastShifted # {}
    /\ backend.display_buffer.buffer \ LastShifted # {}

(* ---------------------------------------------------------------------- *)
(* Scroll programs: the glyph at I = 0 is drawn, then the display scrolled *)
(* ---------------------------------------------------------------------- *)
\* DRW V0, V0, 5; SCD 1 or SCD 4 or SCR or SCL; JP 0x204
ScrollPrograms ==
    { << \hD005, scroll, \h1204 >> : scroll \in {\h00C1, \h00C4, \h00FB, \h00FC} }

InitScroll == InitWith(Kinds, ScrollPrograms)

SpecScroll == InitScroll /\ [][NextAlu]_vars

(* ---------------------------------------------------------------------- *)
(* C20: 00CN, 00FB, 00FC on SUPER-CHIP                                    *)
(* ---------------------------------------------------------------------- *)
\* the last instruction executed was 00CN (N >= 1), 00FB or 00FC on SUPER-CHIP
LastIsScroll ==
    /\ kind = "super_chip"
    /\ LastIs(0)
    /\ SteppedOk
    /\ \/ operand_nnn(last.instruction) \in {\h0FB, \h0FC}
       \/ operand_nn(last.instruction) \div 16 = 12 /\ operand_n(last.instruction) >= 1

LastScrollDirection ==
    CASE operand_nnn(last.instruction) = \h0FB -> "right"
      [] operand_nnn(last.instruction) = \h0FC -> "left"
      [] OTHER -> "down"

LastScrollAmount ==
    IF operand_nnn(last.instruction) \in {\h0FB, \h0FC} THEN 4
    ELSE operand_n(last.instruction)

\* C20: on SUPER-CHIP 00CN leaves the display scrolled down by n rows, 00FB
\* scrolled right by 4 columns and 00FC scrolled left by 4 columns, each scaled
\* by the scrolling rules.
C20_ScrollOpcodes ==
    LastIsScroll =>
        backend.display_buffer.buffer =
            Shifted(last.before.buffer, LastScrollDirection,
                    ScrollDistance(backend.display_buffer, LastScrollAmount),
                    DISPLAY_BUFFER_WIDTH(kind), DISPLAY_BUFFER_HEIGHT(kind))

\* a scroll opcode has executed on a lit SUPER-CHIP display and left it as it was
C20_Witness ==
    /\ LastIsScroll
    /\ last.before.buffer # {}
    /\ backend.display_buffer.buffer = last.before.buffer

(* ---------------------------------------------------------------------- *)
(* Persistent storage programs: V0 and V7 are set, FX75 saves, V0 is      *)
(* overwritten, FX85 restores                                             *)
(* ---------------------------------------------------------------------- *)
\* the x of FX75 and FX85: the first register, below, at and above the last
\* storage byte, the last register
PersistRegisters == {0, 6, 7, 8, 15}

\* LD V0, 0x11; LD V7, 0x77; FX75; LD V0, 0x99; FX85; JP 0x20A
\* and, on the storage as the host supplies it: LD V0, 0x99; FX85; JP 0x204
PersistPrograms ==
    { << \h6011, \h6777, \hF075 + 256 * x, \h6099, \hF085 + 256 * x, \h120A >> :
        x \in PersistRegisters }
    \cup { << \h6099, \hF085 + 256 * x, \h1204 >> : x \in PersistRegisters }

InitPersist == InitWith(Kinds, PersistPrograms)

SpecPersist == InitPersist /\ [][NextAlu]_vars

(* ---------------------------------------------------------------------- *)
(* C21: FX75                                                              *)
(* ---------------------------------------------------------------------- *)
\* the last register FX75 and FX85 copy
LastSaved == Min(LastX, PERSISTENT_STORAGE_SIZE - 1)

\* C21: on SUPER-CHIP FX75 completes without failure for every x, leaves
\* V[0..=min(x, 7)] in storage[0..=min(x, 7)], and changes neither the other
\* storage bytes nor any register.
C21_Save ==
    (kind = "super_chip" /\ LastIsF(\h75)) =>
        /\ result.status \notin {"Err", "Panic"}
        /\ \A i \in 0..(PERSISTENT_STORAGE_SIZE - 1) :
              backend.persistent_storage[i + 1] =
                 (IF i <= LastSaved THEN last.before.registers.general[i]
                  ELSE last.before.persistent_storage[i + 1])
        /\ backend.registers = last.before.registers

\* FX75 with x below 7 has stopped the process (slices of different lengths)
C21_Witness ==
    /\ kind = "super_chip"
    /\ LastIsF(\h75)
    /\ LastX < PERSISTENT_STORAGE_SIZE - 1
    /\ result.status = "Panic"

(* ---------------------------------------------------------------------- *)
(* C22: FX85                                                              *)
(* ---------------------------------------------------------------------- *)
\* the registers as the save-and-restore programs leave them before FX75
SavedRegisters == [i \in 0..(REGISTER_COUNT - 1) |->
                      CASE i = 0 -> \h11 [] i = 7 -> \h77 [] OTHER -> 0]

\* C22: on SUPER-CHIP FX85 completes without failure for every x, leaves
\* storage[0..=min(x, 7)] in V[0..=min(x, 7)], and changes neither the other
\* registers, I, nor the storage; after FX75 and FX85 with the same x,
\* V[0..=min(x, 7)] is what it was before FX75.
C22_Restore ==
    (kind = "super_chip" /\ LastIsF(\h85)) =>
        /\ result.status \notin {"Err", "Panic"}
        /\ \A i \in 0..(REGISTER_COUNT - 1) :
              V[i] = (IF i <= LastSaved THEN last.before.persistent_storage[i + 1]
                      ELSE last.before.registers.general[i])
        /\ backend.registers.address = last.before.registers.address
        /\ backend.persistent_storage = last.before.persistent_storage
        /\ last.at = MEMORY_PADDING + 8 =>
              \A i \in 0..LastSaved : V[i] = SavedRegisters[i]

\* FX85 with x below 7 has stopped the process (slices of different lengths)
C22_Witness ==
    /\ kind = "super_chip"
    /\ LastIsF(\h85)
    /\ LastX < PERSISTENT_STORAGE_SIZE - 1
    /\ result.status = "Panic"

(* ---------------------------------------------------------------------- *)
(* Exit programs: 00FD between two register loads                         *)
(* ---------------------------------------------------------------------- *)
\* LD V0, 1; EXIT; LD V0, 2; JP 0x206   and   EXIT; JP 0x200
ExitPrograms ==
    { << \h6001, \h00FD, \h6002, \h1206 >>, << \h00FD, \h1200 >> }

InitExit == InitWith(Kinds, ExitPrograms)

SpecExit == InitExit /\ [][Next]_vars

(* ---------------------------------------------------------------------- *)
(* C23: 00FD and program_exited                                           *)
(* ---------------------------------------------------------------------- *)
\* C23: on SUPER-CHIP the step that executes 00FD sets program_exited and ends
\* the tick's loop; once set, program_exited stays set over every step that is
\* not a reset, and a reset clears it.
C23_Exit ==
    [][/\ (kind = "super_chip" /\ Step /\ ~FetchOverflows(backend)
                /\ Fetched(backend) = \h00FD) =>
             (backend'.program_exited /\ phase' = "idle" /\ result' = Ok)
       /\ (backend.program_exited /\ last'.action # "reset") =>
             backend'.program_exited
       /\ Reset => ~backend'.program_exited]_vars

\* an instruction after 00FD has executed in a later tick and the flag is still set
C23_Witness ==
    /\ kind = "super_chip"
    /\ backend.program_exited
    /\ Stepped
    /\ last.instruction = \h6002
    /\ V[0] = 2

(* ---------------------------------------------------------------------- *)
(* Resolution programs: the display mode is chosen, then the bytes at     *)
(* I = 0 are drawn twice at one position                                  *)
(* ---------------------------------------------------------------------- *)
\* LORES or HIRES; LD V1, y; DRW V0, V1, n; DRW V0, V1, n; JP 0x208
ResolutionPrograms ==
    { << mode, 6 * 4096 + 256 + y, \hD010 + n, \hD010 + n, \h1208 >> :
        mode \in {\h00FE, \h00FF}, y \in {0, 30, 62}, n \in {0, 5} }

InitResolution ==
    /\ kind \in DisplayKinds
    /\ \E clip \in BOOLEAN :
          backend = BackendNew(kind, DefaultOptions(kind),
                               [clip_sprites |-> clip, half_pixel_scrolling |-> FALSE])
    /\ program \in {ProgramBytes(p) : p \in ResolutionPrograms}
    /\ phase = "idle"
    /\ left = 0
    /\ result = NotCalled
    /\ last = Did("call")
    /\ tick_log = NoTick
    /\ state = StateNew

SpecResolution == InitResolution /\ [][NextAlu]_vars

(* ---------------------------------------------------------------------- *)
(* C24: the collision count of the SUPER-CHIP DXYN                        *)
(* ---------------------------------------------------------------------- *)
\* the cells of sprite row r alone
RowTargets(db, coordinates, sprite, r, W, H) ==
    LET wide == Len(sprite) = 32 /\ ~db.half_resolution
        bytes == IF wide THEN {2 * r + 1, 2 * r + 2} ELSE {r + 1}
    IN DrawTargets(db, coordinates,
                   [i \in 1..Len(sprite) |-> IF i \in bytes THEN sprite[i] ELSE 0],
                   W, H)

\* the rows of a sprite in which the draw turns off a pixel that was on, and for
\* a clipped 16 x 16 sprite the rows left undrawn below the bottom edge
CollidingRows(db, coordinates, sprite, W, H) ==
    LET wide == Len(sprite) = 32 /\ ~db.half_resolution
        rows == IF wide THEN 16 ELSE Len(sprite)
        scaling_factor == IF db.half_resolution THEN 2 ELSE 1
        cy0 == (coordinates[2] * scaling_factor) % H
    IN Cardinality({r \in 0..(rows - 1) :
                       RowTargets(db, coordinates, sprite, r, W, H) \cap db.buffer # {}})
       + (IF wide /\ db.options.clip_sprites
          THEN Cardinality({r \in 0..(rows - 1) : cy0 + r >= H}) ELSE 0)

\* the display the last instruction found
DisplayBefore == [backend.display_buffer EXCEPT !.buffer = last.before.buffer]

\* the sprite a SUPER-CHIP DXYN is to draw: N bytes at I, and for N = 0 in high
\* resolution 32 bytes
LastSprite ==
    MemSlice(last.before.memory, last.before.registers.address,
             IF operand_n(last.instruction) = 0 /\ ~backend.display_buffer.half_resolution
             THEN 32 ELSE operand_n(last.instruction))

LastCollidingRows ==
    CollidingRows(DisplayBefore, <<BeforeVx, BeforeVy>>, LastSprite,
                  DISPLAY_BUFFER_WIDTH(kind), DISPLAY_BUFFER_HEIGHT(kind))

\* C24: on SUPER-CHIP, after DXYN V[F] is the number of colliding rows in high
\* resolution and 1 or 0 (some, none) in low resolution, and DXY0 has drawn a
\* 16 x 16 sprite of 32 bytes in high resolution only.
C24_CollisionCount ==
    (kind = "super_chip" /\ LastIs(13) /\ SteppedOk) =>
        /\ V[15] = (IF backend.display_buffer.half_resolution
                    THEN (IF LastCollidingRows > 0 THEN 1 ELSE 0)
                    ELSE LastCollidingRows)
        /\ backend.display_buffer.buffer =
              SymmetricDifference(last.before.buffer,
                  DrawTargets(DisplayBefore, <<BeforeVx, BeforeVy>>, LastSprite,
                              DISPLAY_BUFFER_WIDTH(kind), DISPLAY_BUFFER_HEIGHT(kind)))

\* an 8-wide sprite clipped at the bottom edge of an empty high-resolution
\* display has left a count in V[F]
C24_Witness ==
    /\ kind = "super_chip"
    /\ LastIs(13)
    /\ SteppedOk
    /\ ~backend.display_buffer.half_resolution
    /\ operand_n(last.instruction) = 5
    /\ last.before.buffer = {}
    /\ V[15] = 3

(* ---------------------------------------------------------------------- *)
(* Register dumps at chosen addresses                                     *)
(* ---------------------------------------------------------------------- *)
\* the last register FX55 and FX65 copy
MemoryRegisters == {0, 1, 15}

\* the addresses the dumps go to: inside RAM, and its last two bytes
MemoryAddresses == {\h300, \hFFE, \hFFF}

\* LD V0, 0xAB; LD V1, 0xCD; LD VF, 0xEF; LD I, a; FX55;
\* LD V0, 0; LD V1, 0; LD VF, 0; LD I, a; FX65; JP 0x214
MemoryPrograms ==
    { << \h60AB, \h61CD, \h6FEF, \hA000 + a, \hF055 + 256 * x,
         \h6000, \h6100, \h6F00, \hA000 + a, \hF065 + 256 * x, \h1214 >> :
        a \in MemoryAddresses, x \in MemoryRegisters }

InitMemory == InitWith(DisplayKinds, MemoryPrograms)

SpecMemory == InitMemory /\ [][NextAlu]_vars

(* ---------------------------------------------------------------------- *)
(* C25: FX55 and FX65                                                     *)
(* ---------------------------------------------------------------------- *)
\* the registers as the dump programs leave them before FX55
StoredRegisters == [i \in 0..(REGISTER_COUNT - 1) |->
                       CASE i = 0 -> \hAB [] i = 1 -> \hCD [] i = 15 -> \hEF
                         [] OTHER -> 0]

\* the address register the last instruction found
BeforeI == last.before.registers.address

\* the last instruction failed with MemoryOverflow
LastOverflowed == result.status = "Err" /\ result.error.kind = "MemoryOverflow"

\* the address register after a dump of V[0..=x]
AdvancedI == IF backend.options.increment_address THEN BeforeI + LastX + 1 ELSE BeforeI

\* C25: FX55 copies V[0..=x] to mem[I..=I+x] and FX65 copies mem[I..=I+x] to
\* V[0..=x]; each adds x + 1 to I iff increment_address is on; each fails with
\* MemoryOverflow, writing nothing, when I + x >= 4096; FX55 followed by FX65
\* with the same x and the same I restores V[0..=x] exactly.
C25_StoreLoad ==
    /\ (kind \in DisplayKinds /\ LastIsF(\h55)) =>
          IF BeforeI + LastX >= MEMORY_SIZE
          THEN /\ LastOverflowed
               /\ backend.memory = last.before.memory
               /\ backend.registers = last.before.registers
          ELSE /\ SteppedOk
               /\ \A a \in 0..(MEMORY_SIZE - 1) :
                     MemRead(backend.memory, a) =
                        (IF a \in BeforeI..(BeforeI + LastX)
                         THEN last.before.registers.general[a - BeforeI]
                         ELSE MemRead(last.before.memory, a))
               /\ V = last.before.registers.general
               /\ backend.registers.address = AdvancedI
    /\ (kind \in DisplayKinds /\ LastIsF(\h65)) =>
          IF BeforeI + LastX >= MEMORY_SIZE
          THEN /\ LastOverflowed
               /\ backend.memory = last.before.memory
               /\ backend.registers = last.before.registers
          ELSE /\ SteppedOk
               /\ \A i \in 0..(REGISTER_COUNT - 1) :
                     V[i] = (IF i <= LastX THEN MemRead(last.before.memory, BeforeI + i)
                             ELSE last.before.registers.general[i])
               /\ backend.memory = last.before.memory
               /\ backend.registers.address = AdvancedI
               /\ last.at = MEMORY_PADDING + 18 =>
                     \A i \in 0..LastX : V[i] = StoredRegisters[i]

\* FX65 has brought back V0, V1 and VF from the last sixteen bytes below 0x310
C25_Witness ==
    /\ kind = "chip8"
    /\ LastIsF(\h65)
    /\ SteppedOk
    /\ LastX = 15
    /\ V[0] = \hAB /\ V[1] = \hCD /\ V[15] = \hEF
    /\ backend.registers.address = BeforeI + 16

(* ---------------------------------------------------------------------- *)
(* Decimal digits at chosen addresses                                     *)
(* ---------------------------------------------------------------------- *)
\* the values converted: one, two and three digits, and the largest byte
BcdValues == {0, 9, 47, 123, 255}

\* the addresses the digits go to: inside RAM, and the last three bytes of RAM
\* and the two after them
BcdAddresses == {\h300, \hFFC, \hFFD, \hFFE, \hFFF}

\* LD V5, 0x77; LD Vx, v; LD I, a; FX33; JP 0x208
BcdPrograms ==
    { << \h6577, \h6000 + 256 * x + v, \hA000 + a, \hF033 + 256 * x, \h1208 >> :
        x \in {0, 14}, v \in BcdValues, a \in BcdAddresses }

InitBcd == InitWith(DisplayKinds, BcdPrograms)

SpecBcd == InitBcd /\ [][NextAlu]_vars

(* ---------------------------------------------------------------------- *)
(* C26: FX33                                                              *)
(* ---------------------------------------------------------------------- *)
\* the three decimal digits of v, hundreds first
Digits(v) == << v \div 100, (v \div 10) % 10, v % 10 >>

\* C26: FX33 with V[x] = v writes v / 100 to mem[I], (v / 10) mod 10 to
\* mem[I + 1] and v mod 10 to mem[I + 2] and changes no other byte, register
\* or I; when I + 2 >= 4096 it fails with MemoryOverflow and writes nothing.
C26_Bcd ==
    (kind \in DisplayKinds /\ LastIsF(\h33)) =>
        /\ backend.registers = last.before.registers
        /\ IF BeforeI + 2 >= MEMORY_SIZE
           THEN LastOverflowed /\ backend.memory = last.before.memory
           ELSE /\ SteppedOk
                /\ \A a \in 0..(MEMORY_SIZE - 1) :
                      MemRead(backend.memory, a) =
                         (IF a \in BeforeI..(BeforeI + 2)
                          THEN Digits(BeforeVx)[a - BeforeI + 1]
                          ELSE MemRead(last.before.memory, a))

\* FX33 has written 2, 5, 5 into the last three bytes of RAM it may write
C26_Witness ==
    /\ LastIsF(\h33)
    /\ SteppedOk
    /\ BeforeVx = 255
    /\ BeforeI = MEMORY_SIZE - 3
    /\ MemSlice(backend.memory, BeforeI, 3) = <<2, 5, 5>>

(* ---------------------------------------------------------------------- *)
(* Opcodes outside the instruction set                                    *)
(* ---------------------------------------------------------------------- *)
\* opcodes of families 8, E and F that no arm of execute matches, those only
\* the SUPER-CHIP core matches (FX30, FX75, FX85), and 0NNN other than 00E0
\* and 00EE
UnknownOpcodes ==
    { \h8128, \h812D, \h812F, \hE100, \hE19F, \hE1A0, \hF100, \hF108, \hF156,
      \hF1FF, \hFF30, \hFF75, \hFF85, \h0000, \h0123, \h00FD, \h0FFF }

\* LD V1, 0x12; LD DT, V1; DRW V1, V1, 5; LD I, 0x345; CALL 0x20A; the opcode;
\* JP 0x20C
UnknownPrograms ==
    { << \h6112, \hF115, \hD115, \hA345, \h220A, w, \h120C >> : w \in UnknownOpcodes }

InitUnknown == InitWith(Kinds, UnknownPrograms)

SpecUnknown == InitUnknown /\ [][NextAlu]_vars

(* ---------------------------------------------------------------------- *)
(* C27: unrecognized instructions                                         *)
(* ---------------------------------------------------------------------- *)
\* the low bytes of the FXnn instructions of a core
ListedF(k) ==
    {\h07, \h0A, \h15, \h18, \h1E, \h29, \h33, \h55, \h65}
    \cup (IF k = "super_chip" THEN {\h30, \h75, \h85} ELSE {})

\* w is of family 8, E or F and not an instruction of core k
Undocumented(k, w) ==
    \/ operator_code(w) = 8 /\ operand_n(w) \in (8..13) \cup {15}
    \/ operator_code(w) = 14 /\ operand_nn(w) \notin {\h9E, \hA1}
    \/ operator_code(w) = 15 /\ operand_nn(w) \notin ListedF(k)

\* the last instruction changed none of registers, I, stack, timers, memory
\* and display
LeftUntouched ==
    /\ backend.registers = last.before.registers
    /\ backend.stack = last.before.stack
    /\ backend.timers = last.before.timers
    /\ backend.memory = last.before.memory
    /\ backend.display_buffer.buffer = last.before.buffer

\* C27: an opcode of family 8, E or F that is not an instruction fails with
\* UnrecognizedInstruction and leaves registers, I, stack, timers, memory and
\* display unchanged; on the classic core 0NNN other than 00E0 and 00EE is
\* passed over without an error.
C27_Unrecognized ==
    /\ (Stepped /\ Undocumented(kind, last.instruction)) =>
          /\ result.status = "Err"
          /\ result.error.kind = "UnrecognizedInstruction"
          /\ LeftUntouched
    /\ (kind # "super_chip" /\ LastIs(0)
          /\ operand_nnn(last.instruction) \notin {\h0E0, \h0EE}) =>
          /\ SteppedOk
          /\ LeftUntouched
          /\ backend.index = last.at + INSTRUCTION_SIZE

\* 8XYF has failed with a return address on the stack, a running delay timer
\* and a glyph on the display
C27_Witness ==
    /\ Stepped
    /\ last.instruction = \h812F
    /\ result.status = "Err"
    /\ result.error.kind = "UnrecognizedInstruction"
    /\ Len(backend.stack) = 1
    /\ backend.timers.delay > 0
    /\ backend.display_buffer.buffer # {}
    /\ backend.registers.address = \h345

(* ---------------------------------------------------------------------- *)
(* The host application: ui::App                                          *)
(* ---------------------------------------------------------------------- *)
\* mutant of is_fatal: StackOverflow is fatal as well
is_fatal_Stack(error) ==
    error.kind \in {"MemoryOverflow", "ProgramInvalid", "ProgramNotLoaded", "StackOverflow"}

\* FrontendError::is_fatal of FrontendError::Backend(error)
is_fatal(error) ==
    error.kind \in {"MemoryOverflow", "ProgramInvalid", "ProgramNotLoaded"}

\* the State App::update leaves when it stops the emulation
StateStopped == [emulation |-> "Stopped", menu |-> "Configuration"]

StateRunning == [emulation |-> "Running", menu |-> "Inactive"]

\* the keys App::handle_input consumes in a frame
Inputs == {"None", "Escape", "Space"}

\* mutant of handle_input: Escape opens the menu without suspending
handle_input_Unsuspended(s, input) ==
    CASE input = "Escape" ->
           IF s.menu = "Inactive"
           THEN [emulation |-> "Running", menu |-> "Configuration"]
           ELSE StateRunning
      [] input = "Space" /\ s.menu = "Inactive" ->
           [s EXCEPT !.emulation = IF @ = "Running" THEN "Suspended" ELSE "Running"]
      [] OTHER -> s

\* App::handle_input
handle_input(s, input) ==
    CASE input = "Escape" ->
           IF s.menu = "Inactive"
           THEN [emulation |-> "Suspended", menu |-> "Configuration"]
           ELSE StateRunning
      [] input = "Space" /\ s.menu = "Inactive" ->
           [s EXCEPT !.emulation = IF @ = "Running" THEN "Suspended" ELSE "Running"]
      [] OTHER -> s

\* mutant of ticked: an exited program is not looked at
ticked_Unending(s, r, b) ==
    IF r.status = "Err" /\ is_fatal(r.error) THEN StateStopped
    ELSE s

\* App::update from the return of frontend.tick: a fatal error or an exited
\* program stops the emulation, any other error is printed
ticked(s, r, b) ==
    IF r.status = "Err" /\ is_fatal(r.error) THEN StateStopped
    ELSE IF b.program_exited THEN StateStopped
    ELSE s

\* BackendSelection::into_backend: the selected core, as Default builds it
into_backend(selection) ==
    BackendNew(selection, DefaultOptions(selection), DefaultDisplayOptions)

\* backend_selection_menu: a backend is clicked; the backend in use is
\* replaced if the selection differs from it
SelectBackend ==
    /\ phase = "idle"
    /\ state.menu = "BackendSelection"
    /\ \E selection \in DisplayKinds :
          /\ kind' = selection
          /\ backend' = IF selection # kind THEN into_backend(selection) ELSE backend
          /\ tick_log' = IF selection # kind THEN NoTick ELSE tick_log
    /\ state' = [state EXCEPT !.menu = "Configuration"]
    /\ last' = Did("call")
    /\ UNCHANGED <<program, phase, left, result>>

\* mutant of BackButton: the button is enabled whatever the emulation does
BackButton_Enabled ==
    /\ phase = "idle"
    /\ state.menu = "Configuration"
    /\ state' = [state EXCEPT !.menu = "BackendSelection"]
    /\ last' = Did("call")
    /\ UNCHANGED <<kind, backend, program, phase, left, result, tick_log>>

\* the back button of the configuration menu, enabled while Stopped
BackButton ==
    /\ phase = "idle"
    /\ state.menu = "Configuration"
    /\ state.emulation = "Stopped"
    /\ state' = [state EXCEPT !.menu = "BackendSelection"]
    /\ last' = Did("call")
    /\ UNCHANGED <<kind, backend, program, phase, left, result, tick_log>>

\* App::start, behind the Start button of the configuration menu; files_read
\* is whether FilePicker::load returned a font (if any) of MIN_FONT_SIZE bytes
\* or more and the program file
Start ==
    /\ phase = "idle"
    /\ result.status # "Panic"
    /\ state = StateStopped
    /\ \E files_read \in BOOLEAN :
          IF ~files_read
          THEN UNCHANGED <<backend, result, state, tick_log>>
          ELSE IF Len(program) > MEMORY_SIZE - MEMORY_PADDING
          THEN /\ backend' = reset(kind, backend)
               /\ result' = Failed([kind |-> "ProgramInvalid",
                                     instruction |-> NoInstruction])
               /\ tick_log' = NoTick
               /\ UNCHANGED state
          ELSE /\ backend' = load(kind, reset(kind, backend), program)
               /\ result' = Ok
               /\ tick_log' = NoTick
               /\ state' = StateRunning
    /\ last' = Did("call")
    /\ UNCHANGED <<kind, program, phase, left>>

\* the Reset button of the configuration menu
ResetButton ==
    /\ phase = "idle"
    /\ result.status # "Panic"
    /\ state.menu = "Configuration"
    /\ state.emulation # "Stopped"
    /\ backend' = reset(kind, backend)
    /\ state' = StateRunning
    /\ last' = Did("reset")
    /\ tick_log' = NoTick
    /\ UNCHANGED <<kind, program, phase, left, result>>

\* the Stop button of the configuration menu
StopButton ==
    /\ phase = "idle"
    /\ state.menu = "Configuration"
    /\ state.emulation # "Stopped"
    /\ state' = [state EXCEPT !.emulation = "Stopped"]
    /\ last' = Did("call")
    /\ UNCHANGED <<kind, backend, program, phase, left, result, tick_log>>

\* App::update: the input, the menus, and for a running emulation the tick
Update ==
    /\ phase = "idle"
    /\ result.status # "Panic"
    /\ \E input \in Inputs :
          \E handled \in {IF state.emulation # "Stopped"
                          THEN handle_input(state, input) ELSE state} :
             IF handled.menu = "Inactive" /\ handled.emulation = "Running"
             THEN /\ tick_called
                  /\ state' = IF phase' = "idle" THEN ticked(handled, result', backend')
                              ELSE handled
             ELSE /\ state' = handled
                  /\ last' = Did("call")
                  /\ UNCHANGED <<kind, backend, program, phase, left, result, tick_log>>

\* App::update, inside the loop of the tick
UpdateStep ==
    /\ tick_iteration
    /\ state' = IF phase' = "idle" THEN ticked(state, result', backend') ELSE state

\* App::update, at the return of a tick that ran out of iterations
UpdateReturn ==
    /\ tick_returned
    /\ state' = ticked(state, result', backend')

\* one program for each error a tick can return, and one that exits:
\*   RET; LD V1, 5; JP 0x204                       StackUnderflow
\*   8008; LD V1, 5; JP 0x204                      UnrecognizedInstruction
\*   LD V0, 0x10; SKP V0; LD V1, 5; JP 0x206       UnrecognizedKey
\*   LD V0, 0x3F; LD F, V0; LD V1, 5; JP 0x206     UnrecognizedSprite
\*   CALL 0x202; CALL 0x202; LD V1, 5; JP 0x206    StackOverflow
\*   JP 0xFFF                                      MemoryOverflow
\*   LD I, 0xFFF; LD B, V0; LD V1, 5; JP 0x206     MemoryOverflow
\*   00FD; JP 0x200                                exit
HostPrograms ==
    { << \h00EE, \h6105, \h1204 >>,
      << \h8008, \h6105, \h1204 >>,
      << \h6010, \hE09E, \h6105, \h1206 >>,
      << \h603F, \hF029, \h6105, \h1206 >>,
      << \h2202, \h2202, \h6105, \h1206 >>,
      << \h1FFF >>,
      << \hAFFF, \hF033, \h6105, \h1206 >>,
      << \h00FD, \h1200 >> }

\* the program file the user has picked: one of the above, or a file one
\* byte too long for RAM
HostFiles ==
    {ProgramBytes(p) : p \in HostPrograms}
        \cup {FileOfLength(MEMORY_SIZE - MEMORY_PADDING + 1)}

InitHost ==
    /\ kind \in DisplayKinds
    /\ backend = BackendNew(kind, DefaultOptions(kind), DefaultDisplayOptions)
    /\ program \in HostFiles
    /\ phase = "idle"
    /\ left = 0
    /\ result = NotCalled
    /\ last = Did("call")
    /\ tick_log = NoTick
    /\ state = StateNew

NextHost ==
    SelectBackend \/ BackButton \/ Start \/ ResetButton \/ StopButton
       \/ Update \/ UpdateStep \/ UpdateReturn

SpecHost == InitHost /\ [][NextHost]_vars

(* ---------------------------------------------------------------------- *)
(* C28: fatal and transient errors                                        *)
(* ---------------------------------------------------------------------- *)
\* a tick has just returned an error
TickFailed ==
    /\ phase = "idle"
    /\ last.action \in {"step", "overflow"}
    /\ result.status = "Err"

\* the error kinds the claim names as stopping the emulation
FatalKinds == {"MemoryOverflow", "ProgramInvalid", "ProgramNotLoaded"}

\* C28: after a tick error the host stops the emulation (emulation Stopped,
\* menu Configuration) if and only if the error kind is MemoryOverflow,
\* ProgramInvalid or ProgramNotLoaded; after any other backend error the
\* emulation stays Running, and the next frame in which the user does not
\* suspend it ticks again.
C28_FatalErrors ==
    [][ /\ TickFailed' =>
             IF result'.error.kind \in FatalKinds THEN state' = StateStopped
             ELSE state' = StateRunning
        /\ (TickFailed /\ state = StateRunning /\ state' = StateRunning) =>
             (tick_log'.entered /\ phase' = "loop") ]_vars

\* the instruction after a failed RET has run in a later frame
C28_Witness ==
    /\ program = ProgramBytes(<< \h00EE, \h6105, \h1204 >>)
    /\ state = StateRunning
    /\ V[1] = 5
    /\ Len(backend.stack) = 0

(* ---------------------------------------------------------------------- *)
(* Glyph selection on SUPER-CHIP                                          *)
(* ---------------------------------------------------------------------- *)
\* LD I, 0x123; LD V3, c; FX29 or FX30; JP 0x206, for every byte c
FontPrograms ==
    { << \hA123, \h6300 + c, select, \h1206 >> : c \in Byte, select \in {\hF329, \hF330} }

InitFont == InitWith({"super_chip"}, FontPrograms)

SpecFont == InitFont /\ [][NextAlu]_vars

(* ---------------------------------------------------------------------- *)
(* C29: FX29 and FX30 on SUPER-CHIP                                       *)
(* ---------------------------------------------------------------------- *)
\* the last instruction failed with UnrecognizedSprite and left I alone
SpriteRefused ==
    /\ result.status = "Err"
    /\ result.error.kind = "UnrecognizedSprite"
    /\ backend.registers.address = BeforeI

\* the last instruction set I to a glyph of the given size at the address,
\* all of it inside the font area
GlyphAt(address, size) ==
    /\ SteppedOk
    /\ backend.registers.address = address
    /\ address >= 0
    /\ address + size <= FONT_SIZE + HIRES_FONT_SIZE

\* C29: SUPER-CHIP FX29 with V[x] = c sets I = 5c for c < 16 and
\* I = 80 + 10 (c & 0xF) for c >= 16 with bit 4 set and (c & 0xF) < 10, and
\* fails with UnrecognizedSprite, I unchanged, for every other c; FX30 sets
\* I = 80 + 10c for c < 10 and fails with UnrecognizedSprite for c >= 10; a
\* selected glyph lies inside the font area [0, 180).
C29_Glyphs ==
    /\ (kind = "super_chip" /\ LastIsF(\h29)) =>
          IF BeforeVx < 16 THEN GlyphAt(5 * BeforeVx, CHARACTER_SIZE)
          ELSE IF Bit(BeforeVx, 4) = 1 /\ BeforeVx % 16 < 10
          THEN GlyphAt(80 + 10 * (BeforeVx % 16), HIRES_CHARACTER_SIZE)
          ELSE SpriteRefused
    /\ (kind = "super_chip" /\ LastIsF(\h30)) =>
          IF BeforeVx < 10 THEN GlyphAt(80 + 10 * BeforeVx, HIRES_CHARACTER_SIZE)
          ELSE SpriteRefused

\* FX29 with the code 0xF9 has selected the last hires glyph
C29_Witness ==
    /\ kind = "super_chip"
    /\ LastIsF(\h29)
    /\ BeforeVx = \hF9
    /\ SteppedOk
    /\ backend.registers.address = 170

(* ---------------------------------------------------------------------- *)
(* Running off the end of RAM                                             *)
(* ---------------------------------------------------------------------- *)
\* the ways the program counter leaves RAM:
\*   JP 0xFFF
\*   LD V0, 5; LD VF, 5; JP V0, 0xFFF          (BNNN: 0xFFF + 5)
\*   JP 0xFFE                                  (the zero word at 0xFFE runs)
\*   LD V0, 0x30; LD V1, 0; LD I, 0xFFC; LD [I], V1; LD V0, 0; JP 0xFFC
\*                                             (SE V0, 0 at 0xFFC skips to 0x1000)
FetchPrograms ==
    { << \h1FFF >>,
      << \h6005, \h6F05, \hBFFF >>,
      << \h1FFE >>,
      << \h6030, \h6100, \hAFFC, \hF155, \h6000, \h1FFC >> }

InitFetch == InitWith(Kinds, FetchPrograms)

NextFetch == Load \/ Reset \/ TickBegin \/ Step \/ TickReturn

SpecFetch == InitFetch /\ [][NextFetch]_vars

(* ---------------------------------------------------------------------- *)
(* C30: the fetch past the end of RAM                                     *)
(* ---------------------------------------------------------------------- *)
\* what tick returns when it refuses to fetch at the program counter of b
FetchRefused(b) ==
    Failed([kind |-> "MemoryOverflow", instruction |-> <<b.index, << >> >>])

\* the two bytes at the program counter of b are not both inside RAM
PastEnd(b) == b.index + 1 >= MEMORY_SIZE

\* tick is about to fetch
Fetching == phase = "loop" /\ left > 0

\* C30 as stated: once a fetch has been refused, every later tick fails with
\* MemoryOverflow until reset.
C30_EveryLaterTick ==
    [][ (tick_log.fetch_failures > 0 /\ phase = "loop" /\ phase' = "idle") =>
           result' = FetchRefused(backend) ]_vars

\* C30: a fetch attempted with PC + 1 >= 4096 makes tick fail with
\* MemoryOverflow and leaves PC, registers and stack (the whole backend) as
\* they were; from then on PC stays where it is until reset, and every later
\* tick(n) with n >= 1 fails the same way, while tick(0) attempts no fetch and
\* returns Ok.
C30_FetchOverflow ==
    [][ /\ (Fetching /\ PastEnd(backend)) =>
             /\ result' = FetchRefused(backend)
             /\ phase' = "idle"
             /\ backend' = backend
        /\ (tick_log.fetch_failures > 0 /\ last'.action # "reset") =>
             /\ backend'.index = backend.index
             /\ PastEnd(backend')
             /\ tick_log'.fetch_failures > 0
        /\ (tick_log.fetch_failures > 0 /\ phase = "loop" /\ phase' = "idle") =>
             IF left > 0 THEN result' = FetchRefused(backend) ELSE result' = Ok
        /\ (tick_log.fetch_failures > 0 /\ last'.action = "reset") =>
             /\ tick_log'.fetch_failures = 0
             /\ ~PastEnd(backend') ]_vars

\* a second tick has been refused its fetch at 0x1004, reached by JP V0, 0xFFF
C30_Witness ==
    /\ tick_log.fetch_failures = 2
    /\ backend.index = \hFFF + 5
    /\ result = FetchRefused(backend)
    /\ last.action = "overflow"

(* ---------------------------------------------------------------------- *)
(* C31: the address an error carries                                      *)
(* ---------------------------------------------------------------------- *)
\* the address and opcode the failed instruction was fetched with
LastFetched == << last.at, << last.instruction >> >>

\* C31: every error execute returns carries the address of the instruction
\* that failed and its 16-bit opcode, for every opcode that can fail,
\* including FX65.
C31_ErrorAddress ==
    (Stepped /\ result.status = "Err") => result.error.instruction = LastFetched

\* FX65 at 0x212 has failed and reports the address 0x214
C31_Witness ==
    /\ LastIsF(\h65)
    /\ LastOverflowed
    /\ last.at = MEMORY_PADDING + 18
    /\ result.error.instruction = << MEMORY_PADDING + 20, << last.instruction >> >>

(* ---------------------------------------------------------------------- *)
(* The dirty flag and the flattened display                               *)
(* ---------------------------------------------------------------------- *)
\* DisplayBuffer::get_flattened: the rows one after the other, and dirty cleared
get_flattened(db, W, H) ==
    [display_buffer |-> [db EXCEPT !.dirty = FALSE],
     pixels |-> [i \in 1..(H * W) |-> << (i - 1) \div W, (i - 1) % W >> \in db.buffer]]

\* 00E0 reaches DisplayBuffer::clear
DisplayCleared ==
    /\ last.calls < MaxCalls
    /\ result.status # "Panic"
    /\ backend' = [backend EXCEPT !.display_buffer = DisplayClear(@)]
    /\ last' = DisplayCall("clear", << >>, backend.display_buffer, 0,
                           last.calls + 1, last.call)
    /\ UNCHANGED <<kind, program, phase, left, result, tick_log, state>>

\* the host reads the display
DisplayRead ==
    /\ last.calls < MaxCalls
    /\ result.status # "Panic"
    /\ \E g \in {get_flattened(backend.display_buffer, DISPLAY_BUFFER_WIDTH(kind),
                                DISPLAY_BUFFER_HEIGHT(kind))} :
          /\ backend' = [backend EXCEPT !.display_buffer = g.display_buffer]
          /\ last' = DisplayCall("get_flattened", << >>, backend.display_buffer,
                                 g.pixels, last.calls + 1, last.call)
    /\ UNCHANGED <<kind, program, phase, left, result, tick_log, state>>

\* a scroll by no cell or by one
DisplayNudge ==
    /\ last.calls < MaxCalls
    /\ result.status # "Panic"
    /\ \E direction \in {"down", "left", "right", "up"}, n \in {0, 1} :
          /\ backend' = [backend EXCEPT !.display_buffer =
                            Scroll(direction, @, n, DISPLAY_BUFFER_WIDTH(kind),
                                   DISPLAY_BUFFER_HEIGHT(kind))]
          /\ last' = DisplayCall("scroll", <<direction, n>>, backend.display_buffer,
                                 0, last.calls + 1, last.call)
    /\ UNCHANGED <<kind, program, phase, left, result, tick_log, state>>

InitDirty ==
    /\ kind \in DisplayKinds
    /\ backend = BackendNew(kind, DefaultOptions(kind), DefaultDisplayOptions)
    /\ program = << >>
    /\ phase = "idle"
    /\ left = 0
    /\ result = NotCalled
    /\ last = Started
    /\ tick_log = NoTick
    /\ state = StateNew

NextDirty ==
    DisplayDraw \/ DisplayResolution \/ DisplayCleared \/ DisplayRead \/ DisplayNudge

SpecDirty == InitDirty /\ [][NextDirty]_vars

(* ---------------------------------------------------------------------- *)
(* C32: the dirty flag                                                    *)
(* ---------------------------------------------------------------------- *)
\* the last display call is one that marks the display as changed
Marks(call) ==
    \/ call.op \in {"clear", "draw"}
    \/ call.op = "scroll" /\ call.arguments[2] >= 1

\* the pixel at row r, column c of a flattened display of width W
PixelOf(pixels, r, c, W) == pixels[r * W + c + 1]

\* C32: the dirty flag is true exactly when a clear, a draw (also of an
\* all-zero sprite) or a scroll with n >= 1 has happened since the last
\* get_flattened; get_flattened yields H * W booleans in row-major order and
\* clears the flag; clear followed by a draw of an all-zero sprite leaves every
\* pixel off with dirty true.
C32_Dirty ==
    last.action = "display" =>
        /\ backend.display_buffer.dirty =
              CASE Marks(last.call) -> TRUE
                [] last.call.op = "get_flattened" -> FALSE
                [] OTHER -> last.call.before.dirty
        /\ last.call.op = "get_flattened" =>
              /\ Len(last.call.returned) =
                    DISPLAY_BUFFER_HEIGHT(kind) * DISPLAY_BUFFER_WIDTH(kind)
              /\ \A r \in 0..(DISPLAY_BUFFER_HEIGHT(kind) - 1),
                     c \in 0..(DISPLAY_BUFFER_WIDTH(kind) - 1) :
                     PixelOf(last.call.returned, r, c, DISPLAY_BUFFER_WIDTH(kind))
                        = (<<r, c>> \in last.call.before.buffer)
              /\ backend.display_buffer.buffer = last.call.before.buffer
        /\ (last.call.op = "draw" /\ last.call.arguments[2] = << 0 >>
              /\ last.previous.op = "clear") =>
              /\ backend.display_buffer.buffer = {}
              /\ backend.display_buffer.dirty

\* a blank sprite drawn on a display that had just been read has made it dirty
C32_Witness ==
    /\ last.action = "display"
    /\ last.call.op = "draw"
    /\ last.call.arguments[2] = << 0 >>
    /\ last.previous.op = "get_flattened"
    /\ ~last.call.before.dirty
    /\ backend.display_buffer.dirty

(* ---------------------------------------------------------------------- *)
(* Programs that touch the last bytes of RAM: V0 = V1 = 0xFF, then I is   *)
(* set near the end (or driven to 4096 by FX55 with increment_address)    *)
(* and one of DXYN, DXY0, FX33, FX55, FX65, FX1E runs                     *)
(* ---------------------------------------------------------------------- *)
EdgeAddresses == {\hFDF, \hFE0, \hFF0, \hFFA, \hFFB, \hFFD, \hFFE, \hFFF}

EdgeOpcodes == {\hD010, \hD011, \hD015, \hD01F, \hF033, \hF055, \hF155,
                \hFF55, \hF065, \hF165, \hFF65, \hF01E}

EdgePrograms ==
    { << \h00FF, \h60FF, \h61FF, \hA000 + a, op, \h120A >> :
        a \in EdgeAddresses, op \in EdgeOpcodes }
    \cup { << \h60FF, \h61FF, \hAFFF, \hF055, op, \h120A >> : op \in EdgeOpcodes }
    \cup { << \h60FF, \h61FF, \hAFFE, \hF155, op, \h120A >> : op \in EdgeOpcodes }

InitEdge == InitWith(DisplayKinds, EdgePrograms)

SpecEdge == InitEdge /\ [][NextAlu]_vars

(* ---------------------------------------------------------------------- *)
(* C33: RAM accesses stay below 4096                                      *)
(* ---------------------------------------------------------------------- *)
\* the number of RAM bytes the last instruction addresses from I on
Extent ==
    CASE LastIs(13) ->
            IF /\ kind = "super_chip"
               /\ ~backend.display_buffer.half_resolution
               /\ operand_n(last.instruction) = 0
            THEN 32 ELSE operand_n(last.instruction)
      [] LastIsF(\h33) -> 3
      [] LastIsF(\h55) \/ LastIsF(\h65) -> LastX + 1
      [] OTHER -> 0

\* the last instruction, run to the end, would address a byte at 4096 or above
OutOfRange == Stepped /\ Extent > 0 /\ BeforeI + Extent > MEMORY_SIZE

\* C33: in every reachable state of chip8.rs and super_chip.rs I <= 4096 and
\* RAM holds no byte at an index >= 4096; a DXYN, DXY0, FX33, FX55 or FX65
\* whose bytes would reach index 4096 or beyond fails with MemoryOverflow and
\* leaves registers, stack, timers, RAM and the display as they were
C33_MemoryBounds ==
    /\ backend.registers.address <= MEMORY_SIZE
    /\ DOMAIN backend.memory \subseteq 0..(MEMORY_SIZE - 1)
    /\ OutOfRange => (LastOverflowed /\ LeftUntouched)

\* FF55 at I = 0xFFA on chip8.rs, where V0 and V1 would land in range and
\* V6 at 4096: refused whole, RAM still empty above the program
C33_Witness ==
    /\ kind = "chip8"
    /\ LastIsF(\h55) /\ LastX = 15
    /\ BeforeI = \hFFA
    /\ OutOfRange /\ LastOverflowed
    /\ V[0] = \hFF
    /\ \A a \in \hFFA..(MEMORY_SIZE - 1) : MemRead(backend.memory, a) = 0

(* ---------------------------------------------------------------------- *)
(* Half-resolution draws at register coordinates 0..255: DXYN on the      *)
(* SUPER-CHIP core, which starts in half resolution on its 128 x 64 grid  *)
(* ---------------------------------------------------------------------- *)
MaxBlocks == 1

BlockXs == {0, 57, 63, 64, 127, 255}

BlockYs == {0, 24, 31, 32, 255}

BlockLengths == {0, 1, 15}

\* DXYN with V[x], V[y] anywhere in a byte and a sprite of n solid rows
DisplayBlocks ==
    /\ last.calls < MaxBlocks
    /\ result.status # "Panic"
    /\ \E x \in BlockXs, y \in BlockYs, n \in BlockLengths :
          \E d \in {draw(backend.display_buffer, <<x, y>>, [i \in 1..n |-> \hFF],
                          DISPLAY_BUFFER_WIDTH(kind), DISPLAY_BUFFER_HEIGHT(kind))} :
             /\ backend' = [backend EXCEPT !.display_buffer = d.display_buffer]
             /\ result' = IF d.panic THEN Panicked ELSE Ok
             /\ last' = DisplayCall("draw", << <<x, y>>, [i \in 1..n |-> \hFF] >>,
                                    backend.display_buffer, d.colliding_rows,
                                    last.calls + 1, last.call)
    /\ UNCHANGED <<kind, program, phase, left, tick_log, state>>

\* the host's clip_sprites as configured
InitBlocks ==
    /\ kind = "super_chip"
    /\ \E clip \in BOOLEAN :
          backend = BackendNew(kind, DefaultOptions(kind),
                               [clip_sprites |-> clip, half_pixel_scrolling |-> FALSE])
    /\ program = << >>
    /\ phase = "idle"
    /\ left = 0
    /\ result = NotCalled
    /\ last = Started
    /\ tick_log = NoTick
    /\ state = StateNew

NextBlocks == DisplayBlocks \/ DisplayResolution

SpecBlocks == InitBlocks /\ [][NextBlocks]_vars

(* ---------------------------------------------------------------------- *)
(* C34: half-resolution blocks stay inside the buffer                     *)
(* ---------------------------------------------------------------------- *)
\* the last call was a draw in half-resolution mode
DrewBlocks ==
    /\ last.action = "display"
    /\ last.call.op = "draw"
    /\ last.call.before.half_resolution

\* the pixels the last call toggled
Toggled ==
    (backend.display_buffer.buffer \ last.call.before.buffer)
    \cup (last.call.before.buffer \ backend.display_buffer.buffer)

\* the 2x2 block with even top-left corner that holds the pixel p
BlockOf(p) ==
    LET i == p[1] - (p[1] % 2)
        j == p[2] - (p[2] % 2)
    IN {<<i, j>>, <<i, j + 1>>, <<i + 1, j>>, <<i + 1, j + 1>>}

\* C34: a draw in half-resolution mode never indexes the buffer out of bounds:
\* it completes, and the pixels it toggles are whole 2x2 blocks with row
\* index + 1 < H and column index + 1 < W, for coordinates up to 255, sprite
\* lengths up to 15 and clip_sprites on or off
C34_BlocksInside ==
    DrewBlocks =>
        /\ result.status # "Panic"
        /\ \A p \in Toggled :
              /\ BlockOf(p) \subseteq Toggled
              /\ \A q \in BlockOf(p) :
                    /\ q[1] < DISPLAY_BUFFER_HEIGHT(kind)
                    /\ q[2] < DISPLAY_BUFFER_WIDTH(kind)

\* clip_sprites off, 15 rows at (127, 31): the sprite starts in the last
\* block of the grid and wraps to the first block in both directions
C34_Witness ==
    /\ DrewBlocks
    /\ ~backend.display_buffer.options.clip_sprites
    /\ last.call.arguments[1] = <<127, 31>>
    /\ Len(last.call.arguments[2]) = 15
    /\ {<<63, 127>>, <<0, 0>>, <<27, 13>>} \subseteq backend.display_buffer.buffer
    /\ Cardinality(Toggled) = 4 * 8 * 15

(* ---------------------------------------------------------------------- *)
(* C35: the PC after a non-fatal error                                    *)
(* ---------------------------------------------------------------------- *)
\* the error kinds the host reports and carries on from
NonFatalKinds == {"StackOverflow", "StackUnderflow", "UnrecognizedInstruction",
                  "UnrecognizedKey", "UnrecognizedSprite"}

\* execute has just failed with one of them
FailedLightly ==
    /\ Stepped
    /\ result.status = "Err"
    /\ result.error.kind \in NonFatalKinds

\* C35: when execute fails with StackOverflow, StackUnderflow,
\* UnrecognizedInstruction, UnrecognizedKey or UnrecognizedSprite, the PC is
\* the address after the failing instruction and registers, stack, timers, RAM
\* and display are as the instruction found them; the next tick enters its
\* loop at that PC, and every iteration fetches at the PC it finds, so the
\* following instruction runs next and the failing one is not run again
C35_Resumes ==
    [][ /\ FailedLightly' =>
             /\ backend'.index = last'.at + INSTRUCTION_SIZE
             /\ LeftUntouched'
        /\ (FailedLightly /\ phase' = "loop") =>
             backend'.index = last.at + INSTRUCTION_SIZE
        /\ (phase = "loop" /\ last'.action = "step") => last'.at = backend.index
      ]_vars

\* the seventeenth nested call failed with StackOverflow at 0x202 and a later
\* tick has run the 6105 at 0x204, the sixteen return addresses still stacked
C35_Witness ==
    /\ program = ProgramBytes(<< \h2202, \h2202, \h6105, \h1206 >>)
    /\ state = StateRunning
    /\ Len(backend.stack) = STACK_SIZE(kind)
    /\ LastIs(6) /\ last.at = MEMORY_PADDING + 4
    /\ V[1] = 5

(* ---------------------------------------------------------------------- *)
(* C36: emulation and menu                                                *)
(* ---------------------------------------------------------------------- *)
\* C36: in every state the UI reaches, emulation = Running implies
\* menu = Inactive and menu = BackendSelection implies emulation = Stopped;
\* a backend tick is entered and runs only with emulation = Running and
\* menu = Inactive; the backend is replaced only while emulation = Stopped
C36_Menus ==
    [][ /\ state'.emulation = "Running" => state'.menu = "Inactive"
        /\ state'.menu = "BackendSelection" => state'.emulation = "Stopped"
        /\ phase' = "loop" => state' = StateRunning
        /\ (kind' # kind \/ (backend.loaded /\ ~backend'.loaded)) =>
             /\ state.emulation = "Stopped"
             /\ state'.emulation = "Stopped"
      ]_vars

\* the backend was replaced after a run that ended in a fatal error: the new
\* backend is not loaded, the emulation is stopped, the last tick's error shown
C36_Witness ==
    /\ ~backend.loaded
    /\ state = StateStopped
    /\ result.status = "Err"
    /\ result.error.kind = "MemoryOverflow"

(* ---------------------------------------------------------------------- *)
(* C37: the UI ticks loaded backends only                                 *)
(* ---------------------------------------------------------------------- *)
\* C37: whenever emulation is Running or Suspended the backend in use is
\* loaded; emulation leaves Stopped only in a start whose load returned Ok,
\* with the program in RAM; a failed load leaves emulation Stopped; no tick
\* issued by the UI returns ProgramNotLoaded
C37_Loaded ==
    [][ /\ state'.emulation # "Stopped" => backend'.loaded
        /\ (state.emulation = "Stopped" /\ state'.emulation # "Stopped") =>
             /\ result' = Ok
             /\ backend' = load(kind, reset(kind, backend), program)
             /\ MemSlice(backend'.memory, MEMORY_PADDING, Len(program)) = program
        /\ (result'.status = "Err" /\ result'.error.kind = "ProgramInvalid") =>
             state'.emulation = "Stopped"
        /\ ~(result'.status = "Err" /\ result'.error.kind = "ProgramNotLoaded")
      ]_vars

\* suspended with Space after the loaded program has run
C37_Witness ==
    /\ state = [emulation |-> "Suspended", menu |-> "Inactive"]
    /\ backend.loaded
    /\ V[1] = 5

(* ---------------------------------------------------------------------- *)
(* C38: an exited program                                                 *)
(* ---------------------------------------------------------------------- *)
\* C38: the update whose tick sets program_exited leaves emulation Stopped and
\* menu Configuration; while program_exited is set no tick is entered and the
\* emulation stays Stopped whatever key is pressed; it leaves Stopped only
\* through a start that resets and reloads the backend
C38_Exited ==
    [][ /\ (~backend.program_exited /\ backend'.program_exited) =>
             state' = StateStopped
        /\ backend'.program_exited =>
             /\ phase' = "idle"
             /\ state'.emulation = "Stopped"
        /\ backend.program_exited =>
             \/ backend' = backend
             \/ (backend' = into_backend(kind') /\ kind' # kind)
             \/ (backend' = reset(kind, backend) /\ state' = state)
             \/ /\ backend' = load(kind, reset(kind, backend), program)
                /\ state = StateStopped
      ]_vars

\* 00FD has just run on SUPER-CHIP: the emulation is stopped, the menu open
C38_Witness ==
    /\ kind = "super_chip"
    /\ backend.program_exited
    /\ LastIs(0) /\ last.instruction = \h00FD
    /\ state = StateStopped

(* ---------------------------------------------------------------------- *)
(* Reloading: a program that writes to RAM, and a shorter one             *)
(*   LD V0, 0xAB; LD I, 0x300; LD [I], V0; JP 0x206                       *)
(*   JP 0x200                                                             *)
(* ---------------------------------------------------------------------- *)
ReloadFiles ==
    { ProgramBytes(<< \h60AB, \hA300, \hF055, \h1206 >>),
      ProgramBytes(<< \h1200 >>) }

\* the host selects the other program file (ui: program_path)
PickFile ==
    /\ phase = "idle"
    /\ result.status # "Panic"
    /\ program' \in ReloadFiles \ {program}
    /\ last' = Did("call")
    /\ UNCHANGED <<kind, backend, phase, left, result, tick_log, state>>

InitReload ==
    /\ kind \in Kinds
    /\ backend = BackendNew(kind, DefaultOptions(kind), DefaultDisplayOptions)
    /\ program \in ReloadFiles
    /\ phase = "idle"
    /\ left = 0
    /\ result = NotCalled
    /\ last = Did("call")
    /\ tick_log = NoTick
    /\ state = StateNew

NextReload == PickFile \/ Load \/ TickBegin \/ Step \/ TickReturn

SpecReload == InitReload /\ [][NextReload]_vars

(* ---------------------------------------------------------------------- *)
(* C39: RAM after a reload                                                *)
(* ---------------------------------------------------------------------- *)
\* the selected file is shorter than every other file the backend can have loaded
Shorter == \A f \in ReloadFiles \ {program} : Len(program) < Len(f)

\* the RAM bytes of b at or above 512 + len that are not 0
Leftover(b, len) == {a \in DOMAIN b.memory : a >= MEMORY_PADDING + len}

\* C39: a successful load of a shorter program on a backend that was loaded
\* before leaves every RAM byte in [512 + len, 4096) zero: nothing of the
\* earlier program or of what it wrote remains
C39_CleanReload ==
    [][(Load /\ backend.loaded /\ Shorter) =>
          Leftover(backend', Len(program)) = {}]_vars

\* the classic core after the 2-byte program was loaded over the 8-byte one
\* that had run: the rest of the first program and the byte it stored remain
C39_Witness ==
    /\ kind = "chip8"
    /\ backend.loaded
    /\ program = ProgramBytes(<< \h1200 >>)
    /\ MemSlice(backend.memory, MEMORY_PADDING, 4) = << \h12, \h00, \hA3, \h00 >>
    /\ MemRead(backend.memory, \h300) = \hAB

====
